---- MODULE Spec2Model ----
(***************************************************************************)
(* Request pipeline of the DO GenAI API: authentication gate               *)
(* (before_request), routing, route handlers, response wrapper, and the    *)
(* multi-file upload handler with its temporary files.                     *)
(*                                                                         *)
(* Strings the code inspects character by character (the Authorization     *)
(* header, the bearer token, file names, the folder) are sequences of      *)
(* one-character strings.  Python's None is the value None below.          *)
(***************************************************************************)
EXTENDS Naturals, Integers, Sequences, FiniteSets, TLC

\* ------------------------------------------------------------------ bounds
MaxTokLen == 1
MaxFiles == 2
MaxMissing == 1
MaxClusters == 3
\* keys in one call of the bulk delete
MaxKeys == 5

\* ------------------------------------------------------- string primitives
None == << "<None>" >>

\* Python truthiness of an Optional[str]: None and '' are falsy
Truthy(s) == s # None /\ s # << >>

\* str.startswith
StartsWith(s, p) == Len(s) >= Len(p) /\ SubSeq(s, 1, Len(p)) = p

RECURSIVE LStrip(_)
LStrip(s) == IF s # << >> /\ Head(s) = " " THEN LStrip(Tail(s)) ELSE s

RECURSIVE RStrip(_)
RStrip(s) ==
    IF s # << >> /\ s[Len(s)] = " " THEN RStrip(SubSeq(s, 1, Len(s) - 1)) ELSE s

\* str.strip
Strip(s) == RStrip(LStrip(s))

\* part in text: part is a run of consecutive fragments of text
Contains(text, part) ==
    \E i \in 0..(Len(text) - Len(part)) : SubSeq(text, i + 1, i + Len(part)) = part

\* all sequences over S of length 0..n
RECURSIVE SeqsUpTo(_, _)
SeqsUpTo(S, n) ==
    IF n = 0 THEN { << >> }
    ELSE LET shorter == SeqsUpTo(S, n - 1)
         IN  shorter \cup { Append(s, x) : s \in shorter, x \in S }

\* ------------------------------------------------------------- input sets
\* the tokens a client can put into its header
Tokens == SeqsUpTo({"a", "b"}, MaxTokLen)

BearerPrefix == <<"B", "e", "a", "r", "e", "r", " ">>

\* Authorization headers a client can send: absent, empty, a bare token, and
\* a token behind a well-formed or a malformed scheme prefix
Headers ==
    {None} \cup Tokens
      \cup { BearerPrefix \o t : t \in Tokens }
      \cup { <<"b", "e", "a", "r", "e", "r", " ">> \o t : t \in Tokens }
      \cup { <<"B", "e", "a", "r", "e", "r">> \o t : t \in Tokens }

\* the process environment: every setting is unset (None) or set
OptSetting == { None, <<"v">> }
Missing(e) == { k \in DOMAIN e : ~Truthy(e[k]) }
\* environments with at most MaxMissing settings unset or empty; the default
\* region is the one setting where unset and empty differ, and the expected
\* token is unset, '' or a token (the clients' tokens are equal to it,
\* longer, shorter or different)
Envs ==
    { e \in { [API_BEARER_TOKEN |-> t, SPACES_KEY |-> k, SPACES_SECRET |-> s,
               DIGITALOCEAN_API_TOKEN |-> d, DEFAULT_WORKSPACE_UUID |-> w,
               DEFAULT_MODEL_UUID |-> m, DEFAULT_REGION |-> r] :
                 t \in {None} \cup SeqsUpTo({"a"}, MaxTokLen), k \in OptSetting, s \in OptSetting, d \in OptSetting,
                 w \in OptSetting, m \in OptSetting, r \in OptSetting \cup {<< >>} } :
        Cardinality(Missing(e)) <= MaxMissing }

\* FileStorage.filename of an uploaded part: empty, blank, or a name
FileLists == SeqsUpTo({ << >>, <<" ">>, <<"a">>, <<" ", "b">> }, MaxFiles)
\* the names of temporary files: enough for the files of two requests
TmpNames == 1..(2 * MaxFiles)

\* ----------------------------------------------------------- JSON bodies
\* A JSON value as Python holds it after request.get_json(): null (None), a
\* string, a non-zero number, or a list of such values.
JNull == [t |-> "null", s |-> << >>, items |-> << >>]
JStr(s) == [t |-> "str", s |-> s, items |-> << >>]
JNum == [t |-> "num", s |-> << >>, items |-> << >>]
JList(items) == [t |-> "list", s |-> << >>, items |-> items]

\* Python truthiness of a JSON value
JTruthy(v) ==
    CASE v.t = "null" -> FALSE
      [] v.t = "str" -> v.s # << >>
      [] v.t = "num" -> TRUE
      [] v.t = "list" -> v.items # << >>

\* not v or not isinstance(v, str) or not v.strip()
BlankField(v) == ~JTruthy(v) \/ v.t # "str" \/ ~Truthy(Strip(v.s))

\* a mapping without keys: {}
EmptyMapping == [k \in {} |-> << >>]

\* request.get_json(): None when the request has no body, else the object
NoBody == [json |-> "none", fields |-> EmptyMapping]
Object(fields) == [json |-> "object", fields |-> fields]

\* "not data": None and {} are falsy
NotData(data) == data.json = "none" \/ DOMAIN data.fields = {}
\* data.get(k): the value, or None when the key is absent
Get(data, k) == IF k \in DOMAIN data.fields THEN data.fields[k] ELSE JNull

\* d.update(m), {**d, **m}: a key of m replaces an equal key of d
Update(d, m) == [k \in DOMAIN d \cup DOMAIN m |-> IF k \in DOMAIN m THEN m[k] ELSE d[k]]

\* registered (method, endpoint) pairs of the routes modelled here
Endpoints ==
    { <<"GET", "health_check">>,
      <<"POST", "upload_file">>,
      <<"DELETE", "delete_file">>,
      <<"GET", "list_files">>,
      <<"GET", "list_agents">>,
      <<"POST", "create_agent">>,
      <<"GET", "get_agent">>,
      <<"DELETE", "delete_agent">>,
      <<"GET", "list_agent_api_keys">>,
      <<"POST", "create_agent_api_key">>,
      <<"POST", "attach_agent_knowledge_base">>,
      <<"GET", "list_knowledge_bases">>,
      <<"POST", "create_knowledge_base">>,
      <<"GET", "get_knowledge_base">>,
      <<"DELETE", "delete_knowledge_base">>,
      <<"GET", "list_data_sources">>,
      <<"POST", "reindex_knowledgebase">>,
      <<"GET", "list_models">>,
      <<"GET", "list_opensearch_databases">>,
      <<"GET", "list_buckets">>,
      <<"POST", "create_bucket">>,
      <<"GET", "get_bucket">>,
      <<"DELETE", "delete_bucket">> }
Routes == { e[2] : e \in Endpoints }
ObjectKeys == { None, << >>, <<" ">>, <<"k">> }

BucketNames == { <<"a">>, <<"b">> }

\* the values a client can give a field that has to be a non-blank string:
\* none, null, '', blank, a number, a string
FieldValues == { JNull, JStr(<< >>), JStr(<<" ">>), JNum, JStr(<<"x">>) }
\* the objects over the fields ks: every field is absent or has a value of vs
ObjectsOver(ks, vs) ==
    UNION { { Object(f) : f \in [present -> vs] } : present \in SUBSET ks }

\* POST /api/agents: name and instructions, and description or model; with
\* both given, each of model, workspace, region and project_id is absent or
\* has a value, or one of them is null or ''
AgentBodies ==
    {NoBody}
      \cup ObjectsOver({"name", "instructions"}, FieldValues \ {JNull, JStr(<< >>)})
      \cup { Object(Update(b.fields, extra)) :
               b \in ObjectsOver({"name", "instructions"}, {JStr(<<"x">>)}),
               extra \in { [description |-> JStr(<<"d">>)], [model |-> JStr(<<"m">>)] } }
      \cup { Object(Update([name |-> JStr(<<"x">>), instructions |-> JStr(<<"x">>)], o.fields)) :
               o \in ObjectsOver({"model", "workspace", "region", "project_id"}, {JStr(<<"m">>)})
                      \cup UNION { ObjectsOver({k}, {JNull, JStr(<< >>)}) :
                                     k \in {"model", "workspace", "region", "project_id"} } }
\* POST /api/knowledgebase, POST /api/agents/<id>/api-keys: name
NameBodies ==
    {NoBody} \cup ObjectsOver({"name"}, FieldValues)
      \cup { Object([description |-> JStr(<<"d">>)]) }
\* POST /api/buckets: name, and region
BucketBodies ==
    {NoBody} \cup ObjectsOver({"name"}, FieldValues \ {JStr(<<"x">>)})
      \cup { Object([name |-> JStr(n)]) : n \in BucketNames }
      \cup { Object([name |-> JStr(n), region |-> JStr(<<"r">>)]) : n \in BucketNames }
      \cup { Object([region |-> JStr(<<"r">>)]) }
\* POST /api/knowledgebase/reindex: knowledge_base_uuid, and
\* data_source_uuids: null, a string, a number, or a list of up to two items
ReindexBodies ==
    {NoBody} \cup ObjectsOver({"knowledge_base_uuid"}, FieldValues)
      \cup { Object([knowledge_base_uuid |-> JStr(<<"x">>), data_source_uuids |-> d]) :
               d \in {JNull, JStr(<<"x">>), JNum}
                      \cup { JList(items) :
                               items \in SeqsUpTo({ JStr(<<"x">>), JStr(<<" ">>), JNum }, 2) } }
      \cup { Object([data_source_uuids |-> JList(<< JStr(<<"x">>) >>)]) }

\* the inputs a route reads from the request; a route that does not read an
\* input gets the empty one
\* a path parameter (<id>, <name>) is a non-empty string; it can be blank
IdsOf(m, r) ==
    IF m = "OPTIONS" THEN { None }
    ELSE IF r \in { "get_agent", "delete_agent", "list_agent_api_keys",
                    "create_agent_api_key", "attach_agent_knowledge_base",
                    "get_knowledge_base", "delete_knowledge_base", "list_data_sources" }
        THEN { <<" ">>, <<"a">> }
    ELSE IF r \in { "get_bucket", "delete_bucket" } THEN { <<" ">> } \cup BucketNames
    ELSE { None }
BodiesOf(m, r) ==
    IF m # "POST" THEN { NoBody }
    ELSE CASE r = "create_agent" -> AgentBodies
           [] r = "create_knowledge_base" -> NameBodies
           [] r = "create_agent_api_key" -> NameBodies
           [] r = "create_bucket" -> BucketBodies
           [] r = "attach_agent_knowledge_base" ->
                {NoBody} \cup ObjectsOver({"knowledge_base_uuid"}, FieldValues)
           [] r = "reindex_knowledgebase" -> ReindexBodies
           [] OTHER -> { NoBody }

\* ------------------------------------------------------------------ text
\* A text (message, error text, status) is a sequence of fragments; Python's
\* string concatenation and f-strings are sequence concatenation.
RECURSIVE Decimal(_)
\* str(n) for a natural number n
Decimal(n) ==
    LET digit == <<"0", "1", "2", "3", "4", "5", "6", "7", "8", "9">>
    IN  IF n < 10 THEN << digit[n + 1] >>
        ELSE Decimal(n \div 10) \o << digit[(n % 10) + 1] >>

\* ------------------------------------------------------ authentication gate
\* "return None" of require_auth: no response, the request goes on
PassThrough == [code |-> 0, body |-> [status |-> <<"none">>]]

\* Reject(code, message): jsonify({'status': 'error', 'message': ...}), code
Reject(code, message) ==
    [code |-> code, body |-> [status |-> <<"error">>, message |-> message]]

\* require_auth with the token compared by prefix instead of equality
require_auth_prefix_match(token, method, auth_header) ==
    IF ~Truthy(token) THEN
        Reject(500, <<"API_BEARER_TOKEN environment variable is required">>)
    ELSE IF method = "OPTIONS" THEN PassThrough
    ELSE IF ~Truthy(auth_header) THEN Reject(401, <<"Authorization header is required">>)
    ELSE IF ~StartsWith(auth_header, BearerPrefix) THEN
        Reject(401, <<"Authorization header must start with \"Bearer \"">>)
    ELSE IF ~StartsWith(token, SubSeq(auth_header, 8, Len(auth_header))) THEN
        Reject(401, <<"Invalid authentication token">>)
    ELSE PassThrough

\* require_auth with the OPTIONS bypass ahead of the configuration check
require_auth_options_first(token, method, auth_header) ==
    IF method = "OPTIONS" THEN PassThrough
    ELSE IF ~Truthy(token) THEN
        Reject(500, <<"API_BEARER_TOKEN environment variable is required">>)
    ELSE IF ~Truthy(auth_header) THEN Reject(401, <<"Authorization header is required">>)
    ELSE IF ~StartsWith(auth_header, BearerPrefix) THEN
        Reject(401, <<"Authorization header must start with \"Bearer \"">>)
    ELSE IF SubSeq(auth_header, 8, Len(auth_header)) # token THEN
        Reject(401, <<"Invalid authentication token">>)
    ELSE PassThrough

\* require_auth without the OPTIONS bypass
require_auth_no_options(token, method, auth_header) ==
    IF ~Truthy(token) THEN
        Reject(500, <<"API_BEARER_TOKEN environment variable is required">>)
    ELSE IF ~Truthy(auth_header) THEN Reject(401, <<"Authorization header is required">>)
    ELSE IF ~StartsWith(auth_header, BearerPrefix) THEN
        Reject(401, <<"Authorization header must start with \"Bearer \"">>)
    ELSE IF SubSeq(auth_header, 8, Len(auth_header)) # token THEN
        Reject(401, <<"Invalid authentication token">>)
    ELSE PassThrough

\* require_auth: the rejection response, or PassThrough
require_auth(token, method, auth_header) ==
    IF ~Truthy(token) THEN
        Reject(500, <<"API_BEARER_TOKEN environment variable is required">>)
    ELSE IF method = "OPTIONS" THEN PassThrough
    ELSE IF ~Truthy(auth_header) THEN Reject(401, <<"Authorization header is required">>)
    ELSE IF ~StartsWith(auth_header, BearerPrefix) THEN
        Reject(401, <<"Authorization header must start with \"Bearer \"">>)
    ELSE IF SubSeq(auth_header, 8, Len(auth_header)) # token THEN
        Reject(401, <<"Invalid authentication token">>)
    ELSE PassThrough

\* --------------------------------------------------------------- exceptions
\* The exception classes the handlers and adapters can raise, each with its
\* base classes (Python's built-in hierarchy; botocore's and azure's errors
\* derive from Exception directly).
Bases(cls) ==
    CASE cls = "ValueError" -> {"ValueError", "Exception"}
      [] cls = "RuntimeError" -> {"RuntimeError", "Exception"}
      [] cls = "FileNotFoundError" -> {"FileNotFoundError", "OSError", "Exception"}
      [] cls = "OSError" -> {"OSError", "Exception"}
      [] OTHER -> {cls, "Exception"}

IsInstance(exc, cls) == cls \in Bases(exc.cls)

Raise(cls, text) == [kind |-> "raise", exc |-> [cls |-> cls, text |-> text]]
Return(value) == [kind |-> "return", value |-> value]

\* ---------------------------------------------------------- response wrapper
\* {**result, 'status': 'success'}: the envelope's status replaces the result's
MergeSuccess_status_last(result) ==
    [k \in {"status"} \cup DOMAIN result |->
        IF k = "status" THEN <<"success">> ELSE result[k]]

\* {'status': 'success', **result}: a key of result replaces an earlier equal key
MergeSuccess(result) ==
    [k \in {"status"} \cup DOMAIN result |->
        IF k \in DOMAIN result THEN result[k] ELSE <<"success">>]

\* handle_response with the RuntimeError clause missing
handle_response_no_runtime(outcome) ==
    IF outcome.kind = "return" THEN
        [code |-> 200, body |-> MergeSuccess(outcome.value)]
    ELSE IF IsInstance(outcome.exc, "ValueError") THEN Reject(400, outcome.exc.text)
    ELSE Reject(500, <<"An unexpected error occurred: ">> \o outcome.exc.text)

\* handle_response.wrapper applied to what the wrapped handler did
handle_response(outcome) ==
    IF outcome.kind = "return" THEN
        [code |-> 200, body |-> MergeSuccess(outcome.value)]
    ELSE IF IsInstance(outcome.exc, "ValueError") THEN Reject(400, outcome.exc.text)
    ELSE IF IsInstance(outcome.exc, "RuntimeError") THEN Reject(500, outcome.exc.text)
    ELSE Reject(500, <<"An unexpected error occurred: ">> \o outcome.exc.text)

\* ------------------------------------------------------------ vendor calls
\* What one call of a vendor client does: it returns a value or raises.
\* botocore raises ClientError for an error answer of the service and other
\* errors (EndpointConnectionError) when the service is not reached; pydo
\* raises HttpResponseError.
VendorOk(value) == [kind |-> "ok", value |-> value]
VendorError(cls) == [kind |-> "error", cls |-> cls, text |-> << "<", cls, ">" >>]
S3Outcomes(value) ==
    { VendorOk(value), VendorError("ClientError"), VendorError("EndpointConnectionError") }

\* responses of the generative-AI service to list_agents: the adapter hands
\* the vendor's JSON mapping on as it is
GenAIOutcomes ==
    { VendorOk([agents |-> << >>]),
      VendorOk([agents |-> << <<"agent-1">> >>, status |-> <<"degraded">>]),
      VendorError("HttpResponseError") }

\* botocore's ClientError for an error answer that carries a code
ClientError(code) ==
    [kind |-> "error", cls |-> "ClientError", code |-> code,
     text |-> <<"An error occurred (", code, ")">>]
\* e.response.get('Error', {}).get('Code', '')
ErrorCode(vendor) == IF "code" \in DOMAIN vendor THEN vendor.code ELSE ""

\* ---------------------------------------------------------- remote services
\* The state of the remote services: whether each one is reachable, the
\* buckets of the object store and the buckets that hold objects.  Unobserved
\* stands for any state: every answer a vendor call can give is possible.
Unobserved ==
    [observed |-> FALSE, s3 |-> "up", genai |-> "up", buckets |-> {}, holding |-> {}]
Store(s3, genai, buckets, holding) ==
    [observed |-> TRUE, s3 |-> s3, genai |-> genai, buckets |-> buckets, holding |-> holding]

\* os.getenv('SPACES_REGION', 'tor1')
DefaultRegion == <<"tor1">>

\* what the object store in state r answers to a call about a bucket, apart
\* from the metadata of the response
S3Answer(r, call, bucket) ==
    IF r.s3 = "down" THEN VendorError("EndpointConnectionError")
    ELSE CASE call = "create_bucket" ->
                IF bucket \in r.buckets THEN ClientError("BucketAlreadyOwnedByYou")
                ELSE VendorOk([Location |-> <<"/">> \o bucket])
           [] call = "delete_bucket" ->
                IF bucket \notin r.buckets THEN ClientError("NoSuchBucket")
                ELSE IF bucket \in r.holding THEN ClientError("BucketNotEmpty")
                ELSE VendorOk(EmptyMapping)
           [] call = "get_bucket_location" ->
                IF bucket \notin r.buckets THEN ClientError("NoSuchBucket")
                ELSE VendorOk([LocationConstraint |-> DefaultRegion])
           [] call = "get_bucket_acl" ->
                IF bucket \notin r.buckets THEN ClientError("NoSuchBucket")
                ELSE VendorOk([Owner |-> [ID |-> <<"owner">>]])
           [] call = "list_objects_v2" ->
                IF bucket \notin r.buckets THEN ClientError("NoSuchBucket")
                ELSE IF bucket \in r.holding
                     THEN VendorOk([Contents |-> << [Key |-> <<"k">>, LastModified |-> <<"t0">>] >>])
                     ELSE VendorOk([KeyCount |-> <<"0">>])
           [] call = "list_buckets" -> VendorOk([Buckets |-> r.buckets])
           [] call = "paginate" ->
                VendorOk([Contents |-> << [Key |-> <<"k">>, LastModified |-> <<"t0">>,
                                           Size |-> <<"1">>, ETag |-> <<"e">>] >>])

\* the answers with the metadata of the response, where the adapter hands
\* the response on unchanged (list_buckets): botocore puts the identifier of
\* the request into ResponseMetadata, another one for every call
S3AnswersIn(r, call, bucket) ==
    IF call = "list_buckets" /\ r.s3 = "up" THEN
        { VendorOk([Buckets |-> r.buckets, ResponseMetadata |-> [RequestId |-> i]]) :
            i \in {<<"req-1">>, <<"req-2">>} }
    ELSE { S3Answer(r, call, bucket) }

\* the answers a call to the object store can get; of an unobserved store,
\* the answers of the states that differ in what they answer about the bucket
S3Answers(r, call, bucket) ==
    IF r.observed THEN S3AnswersIn(r, call, bucket)
    ELSE UNION { S3AnswersIn(st, call, bucket) :
                   st \in { Store(m, "up", bs, {}) : m \in {"up", "down"}, bs \in {{}, {bucket}} }
                            \cup { Store("up", "up", {bucket}, {bucket}) } }
           \cup { ClientError("AccessDenied") }

\* engine names of managed database clusters, character by character
Opensearch == <<"o", "p", "e", "n", "s", "e", "a", "r", "c", "h">>
OPENSEARCH == <<"O", "P", "E", "N", "S", "E", "A", "R", "C", "H">>
Postgres == <<"p", "o", "s", "t", "g", "r", "e", "s">>
\* a cluster of the vendor's list: the engine field can be missing
Cluster(i, engine) == IF engine = None THEN [id |-> i] ELSE [id |-> i, engine |-> engine]
ClusterLists ==
    { [i \in 1..Len(es) |-> Cluster(i, es[i])] :
        es \in SeqsUpTo({ Opensearch, OPENSEARCH, <<"O", "p", "e", "n", "S", "e", "a", "r", "c", "h">>,
                        Postgres, None }, MaxClusters) }
\* the spec's example: 'opensearch', 'OPENSEARCH', 'postgres'
ExampleClusters == << Cluster(1, Opensearch), Cluster(2, OPENSEARCH), Cluster(3, Postgres) >>
\* responses of databases.list_clusters: the mapping with the list, the bare
\* list (written [array |-> list]), and a mapping without the list
ClusterResponses ==
    { [databases |-> l] : l \in ClusterLists }
      \cup { [array |-> l] : l \in ClusterLists }
      \cup { [id |-> <<"unauthorized">>, message |-> <<"Unable to authenticate you">>] }

\* the response of the generative-AI service to a call that finds what it
\* is asked for
GenAIFound(call, arg) ==
    CASE call = "genai.list_agents" -> [agents |-> << <<"agent-1">> >>]
      [] call = "genai.create_agent" ->
            [agent |-> [uuid |-> <<"new">>, name |-> arg.name, model |-> arg.model_uuid]]
      [] call = "genai.get_agent" -> [agent |-> [uuid |-> arg, name |-> <<"n">>]]
      [] call = "genai.delete_agent" -> [agent |-> [uuid |-> arg]]
      [] call = "genai.list_agent_api_keys" -> [api_key_infos |-> << [name |-> <<"key">>] >>]
      [] call = "genai.create_agent_api_key" -> [api_key_info |-> [name |-> arg]]
      [] call = "genai.attach_knowledge_base" -> [agent |-> [uuid |-> arg]]
      [] call = "genai.list_knowledge_bases" -> [knowledge_bases |-> << [uuid |-> <<"a">>] >>]
      [] call = "genai.create_knowledge_base" -> [knowledge_base |-> [name |-> arg]]
      [] call = "genai.get_knowledge_base" -> [knowledge_base |-> [uuid |-> arg]]
      [] call = "genai.delete_knowledge_base" -> [uuid |-> arg]
      [] call = "genai.list_knowledge_base_data_sources" ->
            [knowledge_base_data_sources |-> << [uuid |-> <<"ds-1">>] >>]
      [] call = "genai.create_indexing_job" -> [job |-> [knowledge_base_uuid |-> arg]]
      [] call = "genai.list_models" -> [models |-> << [uuid |-> <<"m">>] >>]
      [] call = "databases.list_clusters" -> [databases |-> ExampleClusters]

\* the answers a call to the generative-AI service (or the database
\* service) can get: the response, an empty response, or pydo's error
GenAIAnswers(r, call, arg) ==
    IF r.observed THEN
        IF r.genai = "down" THEN { VendorError("HttpResponseError") }
        ELSE { VendorOk(GenAIFound(call, arg)) }
    ELSE IF call = "genai.list_agents" THEN GenAIOutcomes
    ELSE IF call = "databases.list_clusters" THEN
        { VendorOk(m) : m \in ClusterResponses } \cup { VendorError("HttpResponseError") }
    ELSE { VendorOk(GenAIFound(call, arg)), VendorOk(EmptyMapping),
           VendorError("HttpResponseError") }

\* ------------------------------------------------- object-storage adapter
\* a constructor that reports the missing credentials as a dependency failure
Spaces_init_runtime_error(e) ==
    IF ~Truthy(e["SPACES_KEY"]) \/ ~Truthy(e["SPACES_SECRET"]) THEN
        Raise("RuntimeError", <<"Spaces credentials not found. Set SPACES_KEY and SPACES_SECRET environment variables or pass them as parameters.">>)
    ELSE Return(<<"Spaces">>)

\* Spaces.__init__: credentials come from the environment
Spaces_init(e) ==
    IF ~Truthy(e["SPACES_KEY"]) \/ ~Truthy(e["SPACES_SECRET"]) THEN
        Raise("ValueError", <<"Spaces credentials not found. Set SPACES_KEY and SPACES_SECRET environment variables or pass them as parameters.">>)
    ELSE Return(<<"Spaces">>)

\* Spaces.upload_file(file_path, folder, object_name) with the file present
\* or not and the outcome of put_object
Spaces_upload_file(file_exists, folder, object_name, vendor) ==
    IF ~file_exists THEN Raise("FileNotFoundError", <<"File not found: ">>)
    ELSE IF vendor.kind = "ok" THEN
        \* the object key: f"{folder}/{object_name}" if folder else object_name
        Return(IF Truthy(folder) THEN folder \o <<"/">> \o object_name ELSE object_name)
    ELSE IF vendor.cls = "ClientError" THEN
        Raise("RuntimeError", <<"Failed to upload file to Spaces: ">> \o vendor.text)
    ELSE Raise(vendor.cls, vendor.text)

\* Spaces.delete_file(key) with the outcome of delete_object
Spaces_delete_file(key, vendor) ==
    IF vendor.kind = "ok" THEN Return(<<"True">>)
    ELSE IF vendor.cls = "ClientError" THEN
        Raise("RuntimeError", <<"Failed to delete file from Spaces: ">> \o vendor.text)
    ELSE Raise(vendor.cls, vendor.text)

\* what a method that makes several calls did: its outcome and the calls
Calls(outcome, remote) == [outcome |-> outcome, remote |-> remote]

\* Spaces.list_files(prefix, max_keys) with the outcome of the paginated
\* list_objects_v2
Spaces_list_files(vendor) ==
    IF vendor.kind = "ok" THEN
        Return(IF "Contents" \in DOMAIN vendor.value
               THEN [i \in 1..Len(vendor.value.Contents) |->
                        [Key |-> vendor.value.Contents[i].Key,
                         LastModified |-> vendor.value.Contents[i].LastModified,
                         Size |-> vendor.value.Contents[i].Size,
                         ETag |-> vendor.value.Contents[i].ETag]]
               ELSE << >>)
    ELSE IF vendor.cls = "ClientError" THEN
        Raise("RuntimeError", <<"Failed to list files in Spaces: ">> \o vendor.text)
    ELSE Raise(vendor.cls, vendor.text)

\* Spaces.create_bucket(bucket_name, region) with the outcome of create_bucket
Spaces_create_bucket(bucket_name, vendor) ==
    IF ~Truthy(bucket_name) THEN Raise("ValueError", <<"Bucket name cannot be empty">>)
    ELSE IF vendor.kind = "ok" THEN Return(vendor.value)
    ELSE IF vendor.cls = "ClientError" THEN
        IF ErrorCode(vendor) = "BucketAlreadyExists" THEN
            Raise("RuntimeError", <<"Bucket '">> \o bucket_name \o <<"' already exists">>)
        ELSE IF ErrorCode(vendor) = "BucketAlreadyOwnedByYou" THEN
            Raise("RuntimeError", <<"Bucket '">> \o bucket_name \o <<"' is already owned by you">>)
        ELSE Raise("RuntimeError",
                   <<"Failed to create bucket '">> \o bucket_name \o <<"': ">> \o vendor.text)
    ELSE Raise(vendor.cls, vendor.text)

\* delete_bucket without the clause for a bucket that holds objects
Spaces_delete_bucket_no_not_empty(bucket_name, vendor) ==
    IF ~Truthy(bucket_name) THEN Raise("ValueError", <<"Bucket name cannot be empty">>)
    ELSE IF vendor.kind = "ok" THEN Return(<<"True">>)
    ELSE IF vendor.cls = "ClientError" THEN
        IF ErrorCode(vendor) = "NoSuchBucket" THEN
            Raise("RuntimeError", <<"Bucket '">> \o bucket_name \o <<"' does not exist">>)
        ELSE Raise("RuntimeError",
                   <<"Failed to delete bucket '">> \o bucket_name \o <<"': ">> \o vendor.text)
    ELSE Raise(vendor.cls, vendor.text)

\* Spaces.delete_bucket(bucket_name) with the outcome of delete_bucket
Spaces_delete_bucket(bucket_name, vendor) ==
    IF ~Truthy(bucket_name) THEN Raise("ValueError", <<"Bucket name cannot be empty">>)
    ELSE IF vendor.kind = "ok" THEN Return(<<"True">>)
    ELSE IF vendor.cls = "ClientError" THEN
        IF ErrorCode(vendor) = "NoSuchBucket" THEN
            Raise("RuntimeError", <<"Bucket '">> \o bucket_name \o <<"' does not exist">>)
        ELSE IF ErrorCode(vendor) = "BucketNotEmpty" THEN
            Raise("RuntimeError",
                  <<"Bucket '">> \o bucket_name \o <<"' is ", "not empty", ". Delete all objects first.">>)
        ELSE Raise("RuntimeError",
                   <<"Failed to delete bucket '">> \o bucket_name \o <<"': ">> \o vendor.text)
    ELSE Raise(vendor.cls, vendor.text)

\* the except clause of get_bucket_info for an error of one of its calls
get_bucket_info_error(bucket_name, vendor) ==
    IF vendor.cls = "ClientError" THEN
        IF ErrorCode(vendor) = "NoSuchBucket" THEN
            Raise("RuntimeError", <<"Bucket '">> \o bucket_name \o <<"' does not exist">>)
        ELSE Raise("RuntimeError", <<"Failed to get bucket information for '">>
                                      \o bucket_name \o <<"': ">> \o vendor.text)
    ELSE Raise(vendor.cls, vendor.text)

\* get_bucket_info that reports the adapter's own bucket as the name
Spaces_get_bucket_info_own_bucket(bucket_name, location, acl, objects) ==
    IF ~Truthy(bucket_name) THEN
        Calls(Raise("ValueError", <<"Bucket name cannot be empty">>), << >>)
    ELSE IF location.kind # "ok" THEN
        Calls(get_bucket_info_error(bucket_name, location), <<"get_bucket_location">>)
    ELSE IF acl.kind # "ok" /\ acl.cls # "ClientError" THEN
        Calls(get_bucket_info_error(bucket_name, acl),
              <<"get_bucket_location", "get_bucket_acl">>)
    ELSE IF objects.kind # "ok" /\ objects.cls # "ClientError" THEN
        Calls(get_bucket_info_error(bucket_name, objects),
              <<"get_bucket_location", "get_bucket_acl", "list_objects_v2">>)
    ELSE
        Calls(Return(
                [Name |-> <<"do-genai-api">>,
                 Location |-> IF "LocationConstraint" \in DOMAIN location.value
                              THEN location.value.LocationConstraint ELSE DefaultRegion,
                 CreationDate |->
                    IF objects.kind = "ok" /\ "Contents" \in DOMAIN objects.value
                          /\ Len(objects.value.Contents) > 0
                    THEN objects.value.Contents[1].LastModified ELSE None,
                 Owner |-> IF acl.kind = "ok" /\ "Owner" \in DOMAIN acl.value
                           THEN acl.value.Owner ELSE EmptyMapping]),
              <<"get_bucket_location", "get_bucket_acl", "list_objects_v2">>)

\* Spaces.get_bucket_info(bucket_name) with the outcomes of
\* get_bucket_location, get_bucket_acl and list_objects_v2: a ClientError of
\* the second or the third call is swallowed, every other error ends the
\* method
Spaces_get_bucket_info(bucket_name, location, acl, objects) ==
    IF ~Truthy(bucket_name) THEN
        Calls(Raise("ValueError", <<"Bucket name cannot be empty">>), << >>)
    ELSE IF location.kind # "ok" THEN
        Calls(get_bucket_info_error(bucket_name, location), <<"get_bucket_location">>)
    ELSE IF acl.kind # "ok" /\ acl.cls # "ClientError" THEN
        Calls(get_bucket_info_error(bucket_name, acl),
              <<"get_bucket_location", "get_bucket_acl">>)
    ELSE IF objects.kind # "ok" /\ objects.cls # "ClientError" THEN
        Calls(get_bucket_info_error(bucket_name, objects),
              <<"get_bucket_location", "get_bucket_acl", "list_objects_v2">>)
    ELSE
        Calls(Return(
                [Name |-> bucket_name,
                 Location |-> IF "LocationConstraint" \in DOMAIN location.value
                              THEN location.value.LocationConstraint ELSE DefaultRegion,
                 CreationDate |->
                    IF objects.kind = "ok" /\ "Contents" \in DOMAIN objects.value
                          /\ Len(objects.value.Contents) > 0
                    THEN objects.value.Contents[1].LastModified ELSE None,
                 Owner |-> IF acl.kind = "ok" /\ "Owner" \in DOMAIN acl.value
                           THEN acl.value.Owner ELSE EmptyMapping]),
              <<"get_bucket_location", "get_bucket_acl", "list_objects_v2">>)

\* Spaces.list_buckets() with the outcome of list_buckets: the vendor's
\* response is returned as it is
Spaces_list_buckets(vendor) ==
    IF vendor.kind = "ok" THEN Return(vendor.value)
    ELSE IF vendor.cls = "ClientError" THEN
        Raise("RuntimeError", <<"Failed to list buckets: ">> \o vendor.text)
    ELSE Raise(vendor.cls, vendor.text)

\* -------------------------------------------------- generative-AI adapter
\* the class attributes of DigitalOceanAPI, read from the environment when
\* the class is defined: os.getenv(k, '') for an identifier, and for the
\* region os.getenv('DEFAULT_REGION', os.getenv('SPACES_REGION', 'tor1'))
ClassDefault(e, k) ==
    IF e[k] # None THEN e[k]
    ELSE IF k = "DEFAULT_REGION" THEN DefaultRegion
    ELSE << >>

\* DigitalOceanAPI.__init__ without the test of the defaults
DigitalOceanAPI_init_token_only(e) ==
    IF ~Truthy(e["DIGITALOCEAN_API_TOKEN"]) THEN
        Raise("ValueError", <<"DigitalOcean API token not found. Set DIGITALOCEAN_API_TOKEN environment variable or pass api_token parameter.">>)
    ELSE Return(<<"Agents">>)

\* DigitalOceanAPI.__init__: mandatory defaults, then the API token
DigitalOceanAPI_init(e) ==
    IF \/ ~Truthy(ClassDefault(e, "DEFAULT_WORKSPACE_UUID"))
       \/ ~Truthy(ClassDefault(e, "DEFAULT_MODEL_UUID"))
       \/ ~Truthy(ClassDefault(e, "DEFAULT_REGION")) THEN
        Raise("ValueError", <<"DEFAULT_WORKSPACE_UUID, DEFAULT_MODEL_UUID, and DEFAULT_REGION must be set in the environment variables">>)
    ELSE IF ~Truthy(e["DIGITALOCEAN_API_TOKEN"]) THEN
        Raise("ValueError", <<"DigitalOcean API token not found. Set DIGITALOCEAN_API_TOKEN environment variable or pass api_token parameter.">>)
    ELSE Return(<<"Agents">>)

\* Agents.list_agents() without filters: the vendor's response, unchanged
Agents_list_agents(vendor) ==
    IF vendor.kind = "ok" THEN Return(vendor.value)
    ELSE Raise(vendor.cls, vendor.text)

\* an adapter method that raises a RuntimeError for an error of its call
Forward_as_dependency_failure(vendor) ==
    IF vendor.kind = "ok" THEN Return(vendor.value)
    ELSE Raise("RuntimeError", <<"Request failed: ">> \o vendor.text)

\* an adapter method of the form "response = self.client.genai.<call>(...);
\* return response" (Agents.get_agent, delete_agent, attach_knowledge_base,
\* APIKeys.create_agent_api_key, list_agent_api_keys, KnowledgeBases.
\* create_knowledge_base, get_knowledge_base, list_knowledge_bases,
\* delete_knowledge_base, list_knowledge_base_data_sources, IndexingJobs.
\* create_indexing_job, Models.list_models): the response is handed on, an
\* error of the call leaves the method as it is
Forward(vendor) ==
    IF vendor.kind = "ok" THEN Return(vendor.value)
    ELSE Raise(vendor.cls, vendor.text)

\* Agents.create_agent without "if <argument> is None": an argument that was
\* not passed stays None
Agents_create_agent_body_no_defaults(e, name, description, instructions, params) ==
    LET arg(p) == IF p \in DOMAIN params THEN params[p] ELSE None
        base == [name |-> name, model_uuid |-> arg("model_uuid"),
                 workspace_uuid |-> arg("workspace_uuid"), region |-> arg("region"),
                 project_id |-> arg("project_id")]
    IN  base

\* the body Agents.create_agent sends: an argument that is None is filled
\* from the defaults (DEFAULT_PROJECT_UUID is '' when unset), description and
\* instructions are sent when truthy
Agents_create_agent_body(e, name, description, instructions, params) ==
    LET arg(p, default) == IF p \in DOMAIN params THEN params[p] ELSE default
        base == [name |-> name,
                 model_uuid |-> arg("model_uuid", ClassDefault(e, "DEFAULT_MODEL_UUID")),
                 workspace_uuid |-> arg("workspace_uuid", ClassDefault(e, "DEFAULT_WORKSPACE_UUID")),
                 region |-> arg("region", ClassDefault(e, "DEFAULT_REGION")),
                 project_id |-> arg("project_id", << >>)]
        d == IF Truthy(description) THEN [description |-> description] ELSE EmptyMapping
        i == IF Truthy(instructions) THEN [instruction |-> instructions] ELSE EmptyMapping
    IN  Update(Update(base, d), i)

\* Agents.create_agent with the body it sends and the outcome of
\* genai.create_agent: every error of the call becomes a RuntimeError
Agents_create_agent(body, vendor) ==
    IF vendor.kind = "ok" THEN Return(vendor.value)
    ELSE Raise("RuntimeError",
               <<"Failed to create agent '">> \o body.name \o <<"'", " - ">> \o vendor.text
                 \o <<" | Workspace UUID: ">> \o body.workspace_uuid
                 \o <<", Model UUID: ">> \o body.model_uuid
                 \o <<", Region: ">> \o body.region)

\* the alphabet, for str.lower
UpperCase == <<"A", "B", "C", "D", "E", "F", "G", "H", "I", "J", "K", "L", "M",
               "N", "O", "P", "Q", "R", "S", "T", "U", "V", "W", "X", "Y", "Z">>
LowerCase == <<"a", "b", "c", "d", "e", "f", "g", "h", "i", "j", "k", "l", "m",
               "n", "o", "p", "q", "r", "s", "t", "u", "v", "w", "x", "y", "z">>
\* str.lower
Lower(s) ==
    [i \in 1..Len(s) |->
        IF \E j \in 1..26 : UpperCase[j] = s[i]
        THEN LowerCase[CHOOSE j \in 1..26 : UpperCase[j] = s[i]]
        ELSE s[i]]

\* the filter of list_opensearch_databases with the engines compared as
\* they are
IsOpensearch_case_sensitive(db) ==
    (IF "engine" \in DOMAIN db THEN db.engine ELSE << >>) = Opensearch

\* db.get('engine', '').lower() == 'opensearch'
IsOpensearch(db) ==
    Lower(IF "engine" \in DOMAIN db THEN db.engine ELSE << >>) = Opensearch

\* Databases.list_opensearch_databases with the outcome of
\* databases.list_clusters
Databases_list_opensearch_databases(vendor) ==
    IF vendor.kind # "ok" THEN Raise(vendor.cls, vendor.text)
    ELSE IF "databases" \in DOMAIN vendor.value THEN
        Return([databases |-> SelectSeq(vendor.value.databases, IsOpensearch),
                count |-> Len(SelectSeq(vendor.value.databases, IsOpensearch))])
    ELSE IF "array" \in DOMAIN vendor.value THEN
        Return([databases |-> SelectSeq(vendor.value.array, IsOpensearch),
                count |-> Len(SelectSeq(vendor.value.array, IsOpensearch))])
    ELSE Return(vendor.value)

\* ------------------------------------------------------------ route handlers
\* What a handler that runs in one piece did: its outcome (a returned result
\* or a raised error), the adapter calls and the vendor calls it made.
Done(outcome, adapter, remote) ==
    [outcome |-> outcome, adapter |-> adapter, remote |-> remote]

\* delete_file (DELETE /api/files)
delete_file(key, e, vendor) ==
    IF ~Truthy(key) THEN
        Done(Raise("ValueError", <<"Query parameter 'key' is required">>), << >>, << >>)
    ELSE IF ~Truthy(Strip(key)) THEN
        Done(Raise("ValueError", <<"Key cannot be empty">>), << >>, << >>)
    ELSE IF Spaces_init(e).kind = "raise" THEN
        Done(Spaces_init(e), <<"Spaces.__init__">>, << >>)
    ELSE IF Spaces_delete_file(key, vendor).kind = "raise" THEN
        Done(Spaces_delete_file(key, vendor),
             <<"Spaces.__init__", "Spaces.delete_file">>, <<"delete_object">>)
    ELSE
        Done(Return([message |-> <<"File deleted successfully">>, key |-> key]),
             <<"Spaces.__init__", "Spaces.delete_file">>, <<"delete_object">>)

\* list_agents (GET /api/agents): the adapter's result is returned as it is
list_agents(e, vendor) ==
    IF DigitalOceanAPI_init(e).kind = "raise" THEN
        Done(DigitalOceanAPI_init(e), <<"Agents.__init__">>, << >>)
    ELSE
        Done(Agents_list_agents(vendor),
             <<"Agents.__init__", "Agents.list_agents">>, <<"genai.list_agents">>)

\* "not id or not isinstance(id, str) or not id.strip()" for a path parameter
BlankId(id) == ~Truthy(id) \/ ~Truthy(Strip(id))
\* "not response" for a mapping or a list
NotResult(value) == DOMAIN value = {}

\* list_files (GET /api/files)
list_files(e, vendor) ==
    IF Spaces_init(e).kind = "raise" THEN
        Done(Spaces_init(e), <<"Spaces.__init__">>, << >>)
    ELSE LET files == Spaces_list_files(vendor)
         IN  Done(IF files.kind = "raise" THEN files
                  ELSE Return([files |-> files.value, count |-> Len(files.value)]),
                  <<"Spaces.__init__", "Spaces.list_files">>, <<"list_objects_v2">>)

\* the keyword arguments create_agent passes on: only the truthy ones
optional_params(data) ==
    LET field == [model_uuid |-> "model", workspace_uuid |-> "workspace",
                  region |-> "region", project_id |-> "project_id"]
    IN  [p \in { q \in DOMAIN field : JTruthy(Get(data, field[q])) } |->
            Get(data, field[p]).s]

\* the try block of create_agent
create_agent_try(data, e, vendor) ==
    IF DigitalOceanAPI_init(e).kind = "raise" THEN
        Done(DigitalOceanAPI_init(e), <<"Agents.__init__">>, << >>)
    ELSE LET description == IF "description" \in DOMAIN data.fields
                            THEN Get(data, "description").s ELSE << >>
             body == Agents_create_agent_body(e, Get(data, "name").s, description,
                         Get(data, "instructions").s, optional_params(data))
             do_agent_response == Agents_create_agent(body, vendor)
         IN  Done(IF do_agent_response.kind = "return" /\ NotResult(do_agent_response.value)
                  THEN Raise("RuntimeError", <<"Failed to create agent in DigitalOcean - no response received">>)
                  ELSE do_agent_response,
                  <<"Agents.__init__", "Agents.create_agent">>, <<"genai.create_agent">>)

\* create_agent without the except clause: an error of the try block leaves
\* the handler
create_agent_propagate(data, e, vendor) ==
    IF NotData(data) THEN
        Done(Raise("ValueError", <<"Request body must be provided">>), << >>, << >>)
    ELSE IF BlankField(Get(data, "name")) THEN
        Done(Raise("ValueError", <<"Agent ", "name", " is required and cannot be empty">>),
             << >>, << >>)
    ELSE IF BlankField(Get(data, "instructions")) THEN
        Done(Raise("ValueError", <<"Agent ", "instructions", " are required and cannot be empty">>),
             << >>, << >>)
    ELSE create_agent_try(data, e, vendor)

\* create_agent (POST /api/agents): "except Exception" turns every error of
\* the try block into a returned result
create_agent(data, e, vendor) ==
    IF NotData(data) THEN
        Done(Raise("ValueError", <<"Request body must be provided">>), << >>, << >>)
    ELSE IF BlankField(Get(data, "name")) THEN
        Done(Raise("ValueError", <<"Agent ", "name", " is required and cannot be empty">>),
             << >>, << >>)
    ELSE IF BlankField(Get(data, "instructions")) THEN
        Done(Raise("ValueError", <<"Agent ", "instructions", " are required and cannot be empty">>),
             << >>, << >>)
    ELSE LET attempt == create_agent_try(data, e, vendor)
         IN  IF attempt.outcome.kind = "raise" THEN
                 Done(Return([message |-> <<"Agent creation failed">>,
                              error |-> attempt.outcome.exc.text]),
                      attempt.adapter, attempt.remote)
             ELSE attempt

\* get_agent (GET /api/agents/<id>)
get_agent(id, e, vendor) ==
    IF BlankId(id) THEN
        Done(Raise("ValueError", <<"Agent ID cannot be empty">>), << >>, << >>)
    ELSE IF DigitalOceanAPI_init(e).kind = "raise" THEN
        Done(DigitalOceanAPI_init(e), <<"Agents.__init__">>, << >>)
    ELSE LET agent == Forward(vendor)
         IN  Done(IF agent.kind = "return" /\ NotResult(agent.value)
                  THEN Raise("ValueError", <<"Agent with ID '">> \o id \o <<"' not found">>)
                  ELSE agent,
                  <<"Agents.__init__", "Agents.get_agent">>, <<"genai.get_agent">>)

\* delete_agent (DELETE /api/agents/<id>): "not agent and not agent['agent']"
\* reads agent['agent'] exactly when the lookup result is falsy
delete_agent(id, e, lookup, deletion) ==
    IF BlankId(id) THEN
        Done(Raise("ValueError", <<"Agent ID cannot be empty">>), << >>, << >>)
    ELSE IF DigitalOceanAPI_init(e).kind = "raise" THEN
        Done(DigitalOceanAPI_init(e), <<"Agents.__init__">>, << >>)
    ELSE LET agent == Forward(lookup)
         IN  IF agent.kind = "raise" THEN
                 Done(agent, <<"Agents.__init__", "Agents.get_agent">>, <<"genai.get_agent">>)
             ELSE IF "agent" \notin DOMAIN agent.value THEN
                 Done(Raise("KeyError", <<"'agent'">>),
                      <<"Agents.__init__", "Agents.get_agent">>, <<"genai.get_agent">>)
             ELSE IF "uuid" \notin DOMAIN agent.value.agent THEN
                 Done(Raise("KeyError", <<"'uuid'">>),
                      <<"Agents.__init__", "Agents.get_agent">>, <<"genai.get_agent">>)
             ELSE
                 Done(Forward(deletion),
                      <<"Agents.__init__", "Agents.get_agent", "Agents.delete_agent">>,
                      <<"genai.get_agent", "genai.delete_agent">>)

\* list_agent_api_keys (GET /api/agents/<id>/api-keys)
list_agent_api_keys(id, e, vendor) ==
    IF BlankId(id) THEN
        Done(Raise("ValueError", <<"Agent ID cannot be empty">>), << >>, << >>)
    ELSE IF DigitalOceanAPI_init(e).kind = "raise" THEN
        Done(DigitalOceanAPI_init(e), <<"APIKeys.__init__">>, << >>)
    ELSE
        Done(Forward(vendor),
             <<"APIKeys.__init__", "APIKeys.list_agent_api_keys">>,
             <<"genai.list_agent_api_keys">>)

\* create_agent_api_key with APIKeys() constructed at the top of the handler
create_agent_api_key_construct_first(id, data, e, vendor) ==
    IF DigitalOceanAPI_init(e).kind = "raise" THEN
        Done(DigitalOceanAPI_init(e), <<"APIKeys.__init__">>, << >>)
    ELSE IF BlankId(id) THEN
        Done(Raise("ValueError", <<"Agent ID cannot be empty">>), <<"APIKeys.__init__">>, << >>)
    ELSE IF NotData(data) THEN
        Done(Raise("ValueError", <<"Request body must be provided">>),
             <<"APIKeys.__init__">>, << >>)
    ELSE IF BlankField(Get(data, "name")) THEN
        Done(Raise("ValueError", <<"API key ", "name", " is required and cannot be empty">>),
             <<"APIKeys.__init__">>, << >>)
    ELSE
        Done(Forward(vendor),
             <<"APIKeys.__init__", "APIKeys.create_agent_api_key">>,
             <<"genai.create_agent_api_key">>)

\* create_agent_api_key (POST /api/agents/<id>/api-keys)
create_agent_api_key(id, data, e, vendor) ==
    IF BlankId(id) THEN
        Done(Raise("ValueError", <<"Agent ID cannot be empty">>), << >>, << >>)
    ELSE IF NotData(data) THEN
        Done(Raise("ValueError", <<"Request body must be provided">>), << >>, << >>)
    ELSE IF BlankField(Get(data, "name")) THEN
        Done(Raise("ValueError", <<"API key ", "name", " is required and cannot be empty">>),
             << >>, << >>)
    ELSE IF DigitalOceanAPI_init(e).kind = "raise" THEN
        Done(DigitalOceanAPI_init(e), <<"APIKeys.__init__">>, << >>)
    ELSE
        Done(Forward(vendor),
             <<"APIKeys.__init__", "APIKeys.create_agent_api_key">>,
             <<"genai.create_agent_api_key">>)

\* attach_agent_knowledge_base (POST /api/agents/<id>/attach-knowledgebase)
attach_agent_knowledge_base(id, data, e, agent_lookup, kb_lookup, attachment) ==
    IF BlankId(id) THEN
        Done(Raise("ValueError", <<"Agent ID cannot be empty">>), << >>, << >>)
    ELSE IF NotData(data) THEN
        Done(Raise("ValueError", <<"Request body must be provided">>), << >>, << >>)
    ELSE IF BlankField(Get(data, "knowledge_base_uuid")) THEN
        Done(Raise("ValueError", <<"knowledge_base_uuid", " is required and cannot be empty">>),
             << >>, << >>)
    ELSE IF DigitalOceanAPI_init(e).kind = "raise" THEN
        Done(DigitalOceanAPI_init(e), <<"Agents.__init__">>, << >>)
    ELSE LET knowledge_base_uuid == Get(data, "knowledge_base_uuid").s
             agent == Forward(agent_lookup)
             knowledge_base == Forward(kb_lookup)
             result == Forward(attachment)
             one == <<"Agents.__init__", "Agents.get_agent">>
             two == one \o <<"KnowledgeBases.__init__", "KnowledgeBases.get_knowledge_base">>
         IN  IF agent.kind = "raise" THEN Done(agent, one, <<"genai.get_agent">>)
             ELSE IF NotResult(agent.value) THEN
                 Done(Raise("ValueError", <<"Agent with ID '">> \o id \o <<"' not found">>),
                      one, <<"genai.get_agent">>)
             ELSE IF knowledge_base.kind = "raise" THEN
                 Done(knowledge_base, two, <<"genai.get_agent", "genai.get_knowledge_base">>)
             ELSE IF NotResult(knowledge_base.value) THEN
                 Done(Raise("ValueError", <<"Knowledge base with ID '">> \o knowledge_base_uuid
                                             \o <<"' not found">>),
                      two, <<"genai.get_agent", "genai.get_knowledge_base">>)
             ELSE
                 Done(IF result.kind = "raise" THEN result
                      ELSE Return([message |-> <<"Knowledge base attached to agent successfully">>,
                                   agent_id |-> id,
                                   knowledge_base_uuid |-> knowledge_base_uuid,
                                   result |-> result.value]),
                      Append(two, "Agents.attach_knowledge_base"),
                      <<"genai.get_agent", "genai.get_knowledge_base",
                        "genai.attach_knowledge_base">>)

\* list_knowledge_bases (GET /api/knowledgebase)
list_knowledge_bases(e, vendor) ==
    IF DigitalOceanAPI_init(e).kind = "raise" THEN
        Done(DigitalOceanAPI_init(e), <<"KnowledgeBases.__init__">>, << >>)
    ELSE
        Done(Forward(vendor),
             <<"KnowledgeBases.__init__", "KnowledgeBases.list_knowledge_bases">>,
             <<"genai.list_knowledge_bases">>)

\* create_knowledge_base (POST /api/knowledgebase)
create_knowledge_base(data, e, vendor) ==
    IF NotData(data) THEN
        Done(Raise("ValueError", <<"Request body must be provided">>), << >>, << >>)
    ELSE IF BlankField(Get(data, "name")) THEN
        Done(Raise("ValueError", <<"Knowledge base ", "name", " is required and cannot be empty">>),
             << >>, << >>)
    ELSE IF DigitalOceanAPI_init(e).kind = "raise" THEN
        Done(DigitalOceanAPI_init(e), <<"KnowledgeBases.__init__">>, << >>)
    ELSE LET result == Forward(vendor)
         IN  Done(IF result.kind = "return" /\ NotResult(result.value)
                  THEN Raise("RuntimeError", <<"Failed to create knowledge base in DigitalOcean - no response received">>)
                  ELSE result,
                  <<"KnowledgeBases.__init__", "KnowledgeBases.create_knowledge_base">>,
                  <<"genai.create_knowledge_base">>)

\* get_knowledge_base (GET /api/knowledgebase/<id>)
get_knowledge_base(id, e, lookup, sources) ==
    IF BlankId(id) THEN
        Done(Raise("ValueError", <<"Knowledge base ID cannot be empty">>), << >>, << >>)
    ELSE IF DigitalOceanAPI_init(e).kind = "raise" THEN
        Done(DigitalOceanAPI_init(e), <<"KnowledgeBases.__init__">>, << >>)
    ELSE LET knowledge_base == Forward(lookup)
             data_sources == Forward(sources)
             one == <<"KnowledgeBases.__init__", "KnowledgeBases.get_knowledge_base">>
             two == Append(one, "KnowledgeBases.list_knowledge_base_data_sources")
             called == <<"genai.get_knowledge_base", "genai.list_knowledge_base_data_sources">>
         IN  IF knowledge_base.kind = "raise" THEN
                 Done(knowledge_base, one, <<"genai.get_knowledge_base">>)
             ELSE IF NotResult(knowledge_base.value) THEN
                 Done(Raise("ValueError", <<"Knowledge base with ID '">> \o id \o <<"' not found">>),
                      one, <<"genai.get_knowledge_base">>)
             ELSE IF data_sources.kind = "raise" THEN Done(data_sources, two, called)
             ELSE IF NotResult(data_sources.value) THEN
                 Done(Raise("ValueError", <<"Data sources not found for knowledge base with ID '">>
                                             \o id \o <<"'">>),
                      two, called)
             ELSE IF "knowledge_base_data_sources" \notin DOMAIN data_sources.value THEN
                 Done(Raise("KeyError", <<"'knowledge_base_data_sources'">>), two, called)
             ELSE
                 Done(Return(Update(knowledge_base.value,
                        [data_sources |-> data_sources.value.knowledge_base_data_sources])),
                      two, called)

\* delete_knowledge_base without "if not knowledge_base": the deletion follows
\* every lookup that did not raise
delete_knowledge_base_lookup_ignored(id, e, lookup, deletion) ==
    IF BlankId(id) THEN
        Done(Raise("ValueError", <<"Knowledge base ID cannot be empty">>), << >>, << >>)
    ELSE IF DigitalOceanAPI_init(e).kind = "raise" THEN
        Done(DigitalOceanAPI_init(e), <<"KnowledgeBases.__init__">>, << >>)
    ELSE IF Forward(lookup).kind = "raise" THEN
        Done(Forward(lookup),
             <<"KnowledgeBases.__init__", "KnowledgeBases.get_knowledge_base">>,
             <<"genai.get_knowledge_base">>)
    ELSE
        Done(Forward(deletion),
             <<"KnowledgeBases.__init__", "KnowledgeBases.get_knowledge_base",
               "KnowledgeBases.delete_knowledge_base">>,
             <<"genai.get_knowledge_base", "genai.delete_knowledge_base">>)

\* delete_knowledge_base (DELETE /api/knowledgebase/<id>)
delete_knowledge_base(id, e, lookup, deletion) ==
    IF BlankId(id) THEN
        Done(Raise("ValueError", <<"Knowledge base ID cannot be empty">>), << >>, << >>)
    ELSE IF DigitalOceanAPI_init(e).kind = "raise" THEN
        Done(DigitalOceanAPI_init(e), <<"KnowledgeBases.__init__">>, << >>)
    ELSE LET knowledge_base == Forward(lookup)
             one == <<"KnowledgeBases.__init__", "KnowledgeBases.get_knowledge_base">>
         IN  IF knowledge_base.kind = "raise" THEN
                 Done(knowledge_base, one, <<"genai.get_knowledge_base">>)
             ELSE IF NotResult(knowledge_base.value) THEN
                 Done(Raise("ValueError", <<"Knowledge base with ID '">> \o id \o <<"' not found">>),
                      one, <<"genai.get_knowledge_base">>)
             ELSE
                 Done(Forward(deletion),
                      Append(one, "KnowledgeBases.delete_knowledge_base"),
                      <<"genai.get_knowledge_base", "genai.delete_knowledge_base">>)

\* list_data_sources with the existence lookup of get_knowledge_base in front
list_data_sources_with_lookup(id, e, vendor) ==
    IF BlankId(id) THEN
        Done(Raise("ValueError", <<"Knowledge base ID cannot be empty">>), << >>, << >>)
    ELSE IF DigitalOceanAPI_init(e).kind = "raise" THEN
        Done(DigitalOceanAPI_init(e), <<"KnowledgeBases.__init__">>, << >>)
    ELSE
        Done(Forward(vendor),
             <<"KnowledgeBases.__init__", "KnowledgeBases.get_knowledge_base",
               "KnowledgeBases.list_knowledge_base_data_sources">>,
             <<"genai.list_knowledge_base_data_sources">>)

\* list_data_sources (GET /api/knowledgebase/<id>/datasources)
list_data_sources(id, e, vendor) ==
    IF BlankId(id) THEN
        Done(Raise("ValueError", <<"Knowledge base ID cannot be empty">>), << >>, << >>)
    ELSE IF DigitalOceanAPI_init(e).kind = "raise" THEN
        Done(DigitalOceanAPI_init(e), <<"KnowledgeBases.__init__">>, << >>)
    ELSE
        Done(Forward(vendor),
             <<"KnowledgeBases.__init__", "KnowledgeBases.list_knowledge_base_data_sources">>,
             <<"genai.list_knowledge_base_data_sources">>)

\* reindex_knowledgebase without the check of the items of data_source_uuids
reindex_knowledgebase_no_item_check(data, e, vendor) ==
    IF NotData(data) \/ "knowledge_base_uuid" \notin DOMAIN data.fields THEN
        Done(Raise("ValueError", <<"Request body must include a '", "knowledge_base_uuid", "' field">>),
             << >>, << >>)
    ELSE IF BlankField(Get(data, "knowledge_base_uuid")) THEN
        Done(Raise("ValueError", <<"knowledge_base_uuid", " cannot be empty">>), << >>, << >>)
    ELSE IF Get(data, "data_source_uuids").t # "null"
              /\ Get(data, "data_source_uuids").t # "list" THEN
        Done(Raise("ValueError", <<"data_source_uuids", " must be a list">>), << >>, << >>)
    ELSE IF DigitalOceanAPI_init(e).kind = "raise" THEN
        Done(DigitalOceanAPI_init(e), <<"IndexingJobs.__init__">>, << >>)
    ELSE LET result == Forward(vendor)
         IN  Done(IF result.kind = "raise" THEN result
                  ELSE Return([message |-> <<"Re-indexing job created successfully">>,
                               job |-> result.value]),
                  <<"IndexingJobs.__init__", "IndexingJobs.create_indexing_job">>,
                  <<"genai.create_indexing_job">>)

\* reindex_knowledgebase (POST /api/knowledgebase/reindex): data.get gives
\* None for an absent data_source_uuids and for a null one
reindex_knowledgebase(data, e, vendor) ==
    IF NotData(data) \/ "knowledge_base_uuid" \notin DOMAIN data.fields THEN
        Done(Raise("ValueError", <<"Request body must include a '", "knowledge_base_uuid", "' field">>),
             << >>, << >>)
    ELSE IF BlankField(Get(data, "knowledge_base_uuid")) THEN
        Done(Raise("ValueError", <<"knowledge_base_uuid", " cannot be empty">>), << >>, << >>)
    ELSE IF Get(data, "data_source_uuids").t # "null"
              /\ Get(data, "data_source_uuids").t # "list" THEN
        Done(Raise("ValueError", <<"data_source_uuids", " must be a list">>), << >>, << >>)
    ELSE IF Get(data, "data_source_uuids").t = "list"
              /\ \E i \in DOMAIN Get(data, "data_source_uuids").items :
                    ~( /\ Get(data, "data_source_uuids").items[i].t = "str"
                       /\ Truthy(Strip(Get(data, "data_source_uuids").items[i].s)) ) THEN
        Done(Raise("ValueError", <<"All items in ", "data_source_uuids", " must be non-empty strings">>),
             << >>, << >>)
    ELSE IF DigitalOceanAPI_init(e).kind = "raise" THEN
        Done(DigitalOceanAPI_init(e), <<"IndexingJobs.__init__">>, << >>)
    ELSE LET result == Forward(vendor)
         IN  Done(IF result.kind = "raise" THEN result
                  ELSE Return([message |-> <<"Re-indexing job created successfully">>,
                               job |-> result.value]),
                  <<"IndexingJobs.__init__", "IndexingJobs.create_indexing_job">>,
                  <<"genai.create_indexing_job">>)

\* list_models (GET /api/models) without query parameters
list_models(e, vendor) ==
    IF DigitalOceanAPI_init(e).kind = "raise" THEN
        Done(DigitalOceanAPI_init(e), <<"Models.__init__">>, << >>)
    ELSE
        Done(Forward(vendor),
             <<"Models.__init__", "Models.list_models">>, <<"genai.list_models">>)

\* list_opensearch_databases (GET /api/opensearch-databases)
list_opensearch_databases(e, vendor) ==
    IF DigitalOceanAPI_init(e).kind = "raise" THEN
        Done(DigitalOceanAPI_init(e), <<"Databases.__init__">>, << >>)
    ELSE
        Done(Databases_list_opensearch_databases(vendor),
             <<"Databases.__init__", "Databases.list_opensearch_databases">>,
             <<"databases.list_clusters">>)

\* list_buckets (GET /api/buckets)
list_buckets(e, vendor) ==
    IF Spaces_init(e).kind = "raise" THEN
        Done(Spaces_init(e), <<"Spaces.__init__">>, << >>)
    ELSE
        Done(Spaces_list_buckets(vendor),
             <<"Spaces.__init__", "Spaces.list_buckets">>, <<"list_buckets">>)

\* create_bucket (POST /api/buckets)
create_bucket(data, e, vendor) ==
    IF NotData(data) THEN
        Done(Raise("ValueError", <<"Request body must be provided">>), << >>, << >>)
    ELSE IF BlankField(Get(data, "name")) THEN
        Done(Raise("ValueError", <<"Bucket ", "name", " is required and cannot be empty">>),
             << >>, << >>)
    ELSE IF Spaces_init(e).kind = "raise" THEN
        Done(Spaces_init(e), <<"Spaces.__init__">>, << >>)
    ELSE LET confirmation == Spaces_create_bucket(Get(data, "name").s, vendor)
         IN  Done(IF confirmation.kind = "raise" THEN confirmation
                  ELSE IF NotResult(confirmation.value) THEN
                      Raise("RuntimeError", <<"Failed to create bucket in DigitalOcean Spaces - no response received">>)
                  ELSE Return([message |-> <<"Bucket created successfully">>]),
                  <<"Spaces.__init__", "Spaces.create_bucket">>, <<"create_bucket">>)

\* get_bucket (GET /api/buckets/<name>)
get_bucket(name, e, location, acl, objects) ==
    IF BlankId(name) THEN
        Done(Raise("ValueError", <<"Bucket name cannot be empty">>), << >>, << >>)
    ELSE IF Spaces_init(e).kind = "raise" THEN
        Done(Spaces_init(e), <<"Spaces.__init__">>, << >>)
    ELSE LET bucket_info == Spaces_get_bucket_info(name, location, acl, objects)
         IN  Done(bucket_info.outcome,
                  <<"Spaces.__init__", "Spaces.get_bucket_info">>, bucket_info.remote)

\* delete_bucket (DELETE /api/buckets/<name>)
delete_bucket(name, e, vendor) ==
    IF BlankId(name) THEN
        Done(Raise("ValueError", <<"Bucket name cannot be empty">>), << >>, << >>)
    ELSE IF Spaces_init(e).kind = "raise" THEN
        Done(Spaces_init(e), <<"Spaces.__init__">>, << >>)
    ELSE LET deleted == Spaces_delete_bucket(name, vendor)
         IN  Done(IF deleted.kind = "raise" THEN deleted
                  ELSE Return([message |-> <<"Bucket deleted successfully">>,
                               bucket_name |-> name]),
                  <<"Spaces.__init__", "Spaces.delete_bucket">>, <<"delete_bucket">>)

\* health_check (GET /): not wrapped, returns its own body and status
health_check == [code |-> 200,
                 body |-> [status |-> <<"ok">>, message |-> <<"DO GenAI API is running">>]]

\* ------------------------------------------------------- multi-file upload
\* a temporary file under one fixed name, whether or not a file has it
NamedTemporaryFile_fixed_name(existing) == 1

\* tempfile.NamedTemporaryFile(delete=False): a file under a name that no
\* existing file has.  The names are interchangeable, so the model takes the
\* first one that is free.
NamedTemporaryFile(existing) ==
    CHOOSE p \in TmpNames \ existing : \A q \in TmpNames \ existing : p <= q

\* the filter without the strip: a blank filename counts as a file
IsValidFile_no_strip(filename) == Truthy(filename)

\* valid_files = [f for f in files if f.filename and f.filename.strip()]
IsValidFile(filename) == Truthy(filename) /\ Truthy(Strip(filename))
ValidFiles(files) == SelectSeq(files, IsValidFile)

\* the entry appended to results for one file
FileResult(filename, outcome) ==
    IF outcome.kind = "return" THEN
        [filename |-> filename, key |-> outcome.value, success |-> TRUE, error |-> None]
    ELSE
        [filename |-> filename, key |-> None, success |-> FALSE, error |-> outcome.exc.text]

RECURSIVE CountSuccess(_)
\* sum(1 for r in results if r['success'])
CountSuccess(results) ==
    IF results = << >> THEN 0
    ELSE (IF Head(results).success THEN 1 ELSE 0) + CountSuccess(Tail(results))

\* the message ladder with the partial case tested first
UploadMessage_partial_first(successful, total) ==
    IF successful > 0 THEN
        Decimal(successful) \o <<" of ">> \o Decimal(total) \o <<" file(s) uploaded successfully">>
    ELSE IF successful = total THEN
        <<"All ">> \o Decimal(total) \o <<" file(s) uploaded successfully">>
    ELSE <<"No files were uploaded successfully">>

\* the message of the upload summary
UploadMessage(successful, total) ==
    IF successful = total THEN
        <<"All ">> \o Decimal(total) \o <<" file(s) uploaded successfully">>
    ELSE IF successful > 0 THEN
        Decimal(successful) \o <<" of ">> \o Decimal(total) \o <<" file(s) uploaded successfully">>
    ELSE <<"No files were uploaded successfully">>

\* the result upload_file returns after the loop
UploadSummary(results, folder) ==
    LET successful == CountSuccess(results)
        total == Len(results)
    IN  [message |-> UploadMessage(successful, total),
         results |-> results,
         successful |-> successful,
         failed |-> total - successful,
         total |-> total,
         folder |-> IF Truthy(folder) THEN folder ELSE None]

\* -------------------------------------------------------------------- state
VARIABLES
    env,            \* the process environment (read-only after start)
    pc,             \* where the request is: idle, gate, dispatch, upload_loop,
                    \* upload_cleanup, done
    req,            \* the request being served
    response,       \* the HTTP response (code 0: none yet)
    handlerRan,     \* route handlers entered for the request
    adapterCalls,   \* adapter constructions and method calls, in order
    remoteCalls,    \* vendor calls, in order
    disk,           \* temporary files that exist
    valid_files,    \* upload_file: the files with a non-blank filename
    temp_paths,     \* upload_file: temporary paths created so far
    results,        \* upload_file: per-file results so far
    cleaned,        \* upload_file: entries of temp_paths the finally block handled
    unlink_failed,  \* upload_file: temporary paths whose os.unlink raised
    pending,        \* what the wrapped handler did: its result or its error
    gate,           \* what the gate decided: none, pass, reject
    remote,         \* the state of the remote services (Unobserved: any state)
    answers,        \* what the vendor calls of a one-piece handler answered, in order
    prev,           \* the request served before this one, with its response
    threads,        \* concurrent upload requests: the locals of each upload_file call
    creator,        \* the request that created each temporary file that exists
    bulk            \* a call of Spaces.delete_files: its argument and its locals

vars == << env, pc, req, response, handlerRan, adapterCalls, remoteCalls, disk,
           valid_files, temp_paths, results, cleaned, unlink_failed, pending, gate,
           remote, answers, prev, threads, creator, bulk >>
uploadVars == << valid_files, temp_paths, results, cleaned, unlink_failed >>
\* what no handler changes
context == << env, prev, threads, creator, bulk >>

NoRequest == [method |-> "", route |-> "", auth |-> None, files |-> << >>,
              folder |-> << >>, key |-> None, id |-> None, body |-> NoBody]
NoPending == [kind |-> "none"]
\* the requests that can be in upload_file at the same time (one per worker
\* thread of the server)
Threads == {1, 2}
\* the locals of upload_file before the request has entered it: the number
\* of valid_files, the files whose iteration has begun, temp_paths, results
\* (the success of each entry), the remote uploads that have not returned,
\* and the entries of temp_paths the finally block has handled
NoUpload ==
    [pc |-> "none", n |-> 0, started |-> 0, temp_paths |-> << >>, results |-> << >>,
     inflight |-> {}, cleaned |-> 0]
\* Spaces.delete_files before it is called: the keys, the index i of the
\* loop, results, the batches sent to delete_objects with what each one
\* answered, and the exception that left the method
NoBulk ==
    [pc |-> "none", keys |-> << >>, i |-> 0, results |-> << >>, calls |-> << >>,
     outcomes |-> << >>, exc |-> ""]

Init ==
    /\ env \in Envs
    /\ pc = "idle"
    /\ req = NoRequest
    /\ response = PassThrough
    /\ handlerRan = {}
    /\ adapterCalls = << >>
    /\ remoteCalls = << >>
    /\ disk = {}
    /\ valid_files = << >>
    /\ temp_paths = << >>
    /\ results = << >>
    /\ cleaned = 0
    /\ unlink_failed = {}
    /\ pending = NoPending
    /\ gate = "none"
    /\ remote = Unobserved
    /\ answers = << >>
    /\ prev = [req |-> NoRequest, response |-> PassThrough, remote |-> Unobserved]
    /\ threads = [r \in Threads |-> NoUpload]
    /\ creator = [p \in TmpNames |-> 0]
    /\ bulk = NoBulk

\* a request arrives
Receive ==
    /\ pc = "idle"
    /\ \E e \in Endpoints \cup { <<"OPTIONS", r>> : r \in Routes }, h \in Headers :
         \E fs \in IF e = <<"POST", "upload_file">> THEN FileLists ELSE { << >> },
            fo \in IF e = <<"POST", "upload_file">> THEN { << >>, <<"d">> } ELSE { << >> },
            k \in IF e = <<"DELETE", "delete_file">> THEN ObjectKeys ELSE { None },
            i \in IdsOf(e[1], e[2]), b \in BodiesOf(e[1], e[2]) :
            req' = [method |-> e[1], route |-> e[2], auth |-> h,
                    files |-> fs, folder |-> fo, key |-> k, id |-> i, body |-> b]
    /\ pc' = "gate"
    /\ UNCHANGED << context, remote, answers, response, handlerRan, adapterCalls, remoteCalls, disk, uploadVars,
                    pending, gate >>

\* the gate registered for every route but liveness
BeforeRequest_liveness_exempt ==
    /\ pc = "gate"
    /\ LET rejection == require_auth(env["API_BEARER_TOKEN"], req.method, req.auth)
       IN  IF rejection.code # 0 /\ req.route # "health_check"
           THEN response' = rejection /\ pc' = "done" /\ gate' = "reject"
           ELSE response' = response /\ pc' = "dispatch" /\ gate' = "pass"
    /\ UNCHANGED << context, remote, answers, req, handlerRan, adapterCalls, remoteCalls, disk, uploadVars, pending >>

\* app.before_request(require_auth): runs before every route
BeforeRequest ==
    /\ pc = "gate"
    /\ LET rejection == require_auth(env["API_BEARER_TOKEN"], req.method, req.auth)
       IN  IF rejection.code # 0
           THEN response' = rejection /\ pc' = "done" /\ gate' = "reject"
           ELSE response' = response /\ pc' = "dispatch" /\ gate' = "pass"
    /\ UNCHANGED << context, remote, answers, req, handlerRan, adapterCalls, remoteCalls, disk, uploadVars, pending >>

\* an OPTIONS request to a registered route is answered by the framework
AutomaticOptions ==
    /\ pc = "dispatch"
    /\ req.method = "OPTIONS"
    /\ response' = [code |-> 200, body |-> [allow |-> <<"OPTIONS">>]]
    /\ pc' = "done"
    /\ UNCHANGED << context, remote, answers, req, handlerRan, adapterCalls, remoteCalls, disk, uploadVars,
                    pending, gate >>

HealthCheck ==
    /\ pc = "dispatch"
    /\ req.method = "GET" /\ req.route = "health_check"
    /\ handlerRan' = handlerRan \cup {"health_check"}
    /\ response' = health_check
    /\ pc' = "done"
    /\ UNCHANGED << context, remote, answers, req, adapterCalls, remoteCalls, disk, uploadVars, pending, gate >>

\* a wrapped handler that ran in one piece: log its calls, wrap its outcome
Respond(name, done) ==
    /\ handlerRan' = handlerRan \cup {name}
    /\ adapterCalls' = adapterCalls \o done.adapter
    /\ remoteCalls' = remoteCalls \o done.remote
    /\ pending' = done.outcome
    /\ response' = handle_response(done.outcome)
    /\ pc' = "done"

\* a handler that ran in one piece, with the answers its vendor calls got:
\* the answers of the calls it made are kept
Serve(name, done, offered) ==
    /\ Respond(name, done)
    /\ answers' = SubSeq(offered, 1, Len(done.remote))

\* the request is for this route and has passed the gate
Dispatched(method, route) ==
    pc = "dispatch" /\ req.method = method /\ req.route = route

\* what a call that the object store answered does to the store
S3Effect(r, call, bucket, vendor) ==
    IF ~r.observed \/ vendor.kind # "ok" THEN r
    ELSE CASE call = "create_bucket" -> [r EXCEPT !.buckets = @ \cup {bucket}]
           [] call = "delete_bucket" ->
                [r EXCEPT !.buckets = @ \ {bucket}, !.holding = @ \ {bucket}]
           [] OTHER -> r

DeleteFile ==
    /\ Dispatched("DELETE", "delete_file")
    /\ \E vendor \in S3Outcomes(<< >>) :
         Serve("delete_file", delete_file(req.key, env, vendor), <<vendor>>)
    /\ UNCHANGED << context, remote, req, disk, uploadVars, gate >>

ListAgents ==
    /\ Dispatched("GET", "list_agents")
    /\ \E vendor \in GenAIAnswers(remote, "genai.list_agents", None) :
         Serve("list_agents", list_agents(env, vendor), <<vendor>>)
    /\ UNCHANGED << context, remote, req, disk, uploadVars, gate >>

ListFiles ==
    /\ Dispatched("GET", "list_files")
    /\ \E vendor \in S3Answers(remote, "paginate", <<"do-genai-api">>) :
         Serve("list_files", list_files(env, vendor), <<vendor>>)
    /\ UNCHANGED << context, remote, req, disk, uploadVars, gate >>

CreateAgent ==
    /\ Dispatched("POST", "create_agent")
    /\ \E vendor \in GenAIAnswers(remote, "genai.create_agent",
                      [name |-> Get(req.body, "name").s,
                       model_uuid |-> Get(req.body, "model").s]) :
         Serve("create_agent", create_agent(req.body, env, vendor), <<vendor>>)
    /\ UNCHANGED << context, remote, req, disk, uploadVars, gate >>

GetAgent ==
    /\ Dispatched("GET", "get_agent")
    /\ \E vendor \in GenAIAnswers(remote, "genai.get_agent", req.id) :
         Serve("get_agent", get_agent(req.id, env, vendor), <<vendor>>)
    /\ UNCHANGED << context, remote, req, disk, uploadVars, gate >>

DeleteAgent ==
    /\ Dispatched("DELETE", "delete_agent")
    /\ \E lookup \in GenAIAnswers(remote, "genai.get_agent", req.id),
          deletion \in GenAIAnswers(remote, "genai.delete_agent", req.id) :
         Serve("delete_agent", delete_agent(req.id, env, lookup, deletion),
               <<lookup, deletion>>)
    /\ UNCHANGED << context, remote, req, disk, uploadVars, gate >>

ListAgentApiKeys ==
    /\ Dispatched("GET", "list_agent_api_keys")
    /\ \E vendor \in GenAIAnswers(remote, "genai.list_agent_api_keys", req.id) :
         Serve("list_agent_api_keys", list_agent_api_keys(req.id, env, vendor), <<vendor>>)
    /\ UNCHANGED << context, remote, req, disk, uploadVars, gate >>

CreateAgentApiKey ==
    /\ Dispatched("POST", "create_agent_api_key")
    /\ \E vendor \in GenAIAnswers(remote, "genai.create_agent_api_key",
                                   Get(req.body, "name").s) :
         Serve("create_agent_api_key",
               create_agent_api_key(req.id, req.body, env, vendor), <<vendor>>)
    /\ UNCHANGED << context, remote, req, disk, uploadVars, gate >>

AttachAgentKnowledgeBase ==
    /\ Dispatched("POST", "attach_agent_knowledge_base")
    /\ \E agent_lookup \in GenAIAnswers(remote, "genai.get_agent", req.id),
          kb_lookup \in GenAIAnswers(remote, "genai.get_knowledge_base",
                                     Get(req.body, "knowledge_base_uuid").s),
          attachment \in GenAIAnswers(remote, "genai.attach_knowledge_base", req.id) :
         Serve("attach_agent_knowledge_base",
               attach_agent_knowledge_base(req.id, req.body, env,
                                           agent_lookup, kb_lookup, attachment),
               <<agent_lookup, kb_lookup, attachment>>)
    /\ UNCHANGED << context, remote, req, disk, uploadVars, gate >>

ListKnowledgeBases ==
    /\ Dispatched("GET", "list_knowledge_bases")
    /\ \E vendor \in GenAIAnswers(remote, "genai.list_knowledge_bases", None) :
         Serve("list_knowledge_bases", list_knowledge_bases(env, vendor), <<vendor>>)
    /\ UNCHANGED << context, remote, req, disk, uploadVars, gate >>

CreateKnowledgeBase ==
    /\ Dispatched("POST", "create_knowledge_base")
    /\ \E vendor \in GenAIAnswers(remote, "genai.create_knowledge_base",
                                   Get(req.body, "name").s) :
         Serve("create_knowledge_base",
               create_knowledge_base(req.body, env, vendor), <<vendor>>)
    /\ UNCHANGED << context, remote, req, disk, uploadVars, gate >>

GetKnowledgeBase ==
    /\ Dispatched("GET", "get_knowledge_base")
    /\ \E lookup \in GenAIAnswers(remote, "genai.get_knowledge_base", req.id),
          sources \in GenAIAnswers(remote, "genai.list_knowledge_base_data_sources", req.id) :
         Serve("get_knowledge_base", get_knowledge_base(req.id, env, lookup, sources),
               <<lookup, sources>>)
    /\ UNCHANGED << context, remote, req, disk, uploadVars, gate >>

DeleteKnowledgeBase ==
    /\ Dispatched("DELETE", "delete_knowledge_base")
    /\ \E lookup \in GenAIAnswers(remote, "genai.get_knowledge_base", req.id),
          deletion \in GenAIAnswers(remote, "genai.delete_knowledge_base", req.id) :
         Serve("delete_knowledge_base",
               delete_knowledge_base(req.id, env, lookup, deletion), <<lookup, deletion>>)
    /\ UNCHANGED << context, remote, req, disk, uploadVars, gate >>

ListDataSources ==
    /\ Dispatched("GET", "list_data_sources")
    /\ \E vendor \in GenAIAnswers(remote, "genai.list_knowledge_base_data_sources", req.id) :
         Serve("list_data_sources", list_data_sources(req.id, env, vendor), <<vendor>>)
    /\ UNCHANGED << context, remote, req, disk, uploadVars, gate >>

ReindexKnowledgebase ==
    /\ Dispatched("POST", "reindex_knowledgebase")
    /\ \E vendor \in GenAIAnswers(remote, "genai.create_indexing_job",
                                   Get(req.body, "knowledge_base_uuid").s) :
         Serve("reindex_knowledgebase",
               reindex_knowledgebase(req.body, env, vendor), <<vendor>>)
    /\ UNCHANGED << context, remote, req, disk, uploadVars, gate >>

ListModels ==
    /\ Dispatched("GET", "list_models")
    /\ \E vendor \in GenAIAnswers(remote, "genai.list_models", None) :
         Serve("list_models", list_models(env, vendor), <<vendor>>)
    /\ UNCHANGED << context, remote, req, disk, uploadVars, gate >>

ListOpensearchDatabases ==
    /\ Dispatched("GET", "list_opensearch_databases")
    /\ \E vendor \in GenAIAnswers(remote, "databases.list_clusters", None) :
         Serve("list_opensearch_databases",
               list_opensearch_databases(env, vendor), <<vendor>>)
    /\ UNCHANGED << context, remote, req, disk, uploadVars, gate >>

ListBuckets ==
    /\ Dispatched("GET", "list_buckets")
    /\ \E vendor \in S3Answers(remote, "list_buckets", None) :
         Serve("list_buckets", list_buckets(env, vendor), <<vendor>>)
    /\ UNCHANGED << context, remote, req, disk, uploadVars, gate >>

CreateBucket ==
    /\ Dispatched("POST", "create_bucket")
    /\ LET bucket == Get(req.body, "name").s
       IN  \E vendor \in S3Answers(remote, "create_bucket", bucket) :
             LET done == create_bucket(req.body, env, vendor)
             IN  /\ Serve("create_bucket", done, <<vendor>>)
                 /\ remote' = IF done.remote = << >> THEN remote
                              ELSE S3Effect(remote, "create_bucket", bucket, vendor)
    /\ UNCHANGED << context, req, disk, uploadVars, gate >>

GetBucket ==
    /\ Dispatched("GET", "get_bucket")
    /\ \E location \in S3Answers(remote, "get_bucket_location", req.id),
          acl \in S3Answers(remote, "get_bucket_acl", req.id),
          objects \in S3Answers(remote, "list_objects_v2", req.id) :
         Serve("get_bucket", get_bucket(req.id, env, location, acl, objects),
               <<location, acl, objects>>)
    /\ UNCHANGED << context, remote, req, disk, uploadVars, gate >>

DeleteBucket ==
    /\ Dispatched("DELETE", "delete_bucket")
    /\ \E vendor \in S3Answers(remote, "delete_bucket", req.id) :
         LET done == delete_bucket(req.id, env, vendor)
         IN  /\ Serve("delete_bucket", done, <<vendor>>)
             /\ remote' = IF done.remote = << >> THEN remote
                          ELSE S3Effect(remote, "delete_bucket", req.id, vendor)
    /\ UNCHANGED << context, req, disk, uploadVars, gate >>

\* upload_file up to the try block: validation and adapter construction
UploadBegin ==
    /\ pc = "dispatch"
    /\ req.method = "POST" /\ req.route = "upload_file"
    /\ IF req.files = << >> THEN
            /\ Respond("upload_file",
                  Done(Raise("ValueError", <<"No files provided. Please include at least one 'file' field in the request.">>), << >>, << >>))
            /\ UNCHANGED uploadVars
       ELSE IF ValidFiles(req.files) = << >> THEN
            /\ Respond("upload_file",
                  Done(Raise("ValueError", <<"No valid files selected. Please provide at least one file with a filename.">>), << >>, << >>))
            /\ UNCHANGED uploadVars
       ELSE IF Spaces_init(env).kind = "raise" THEN
            /\ Respond("upload_file", Done(Spaces_init(env), <<"Spaces.__init__">>, << >>))
            /\ UNCHANGED uploadVars
       ELSE /\ handlerRan' = handlerRan \cup {"upload_file"}
            /\ adapterCalls' = Append(adapterCalls, "Spaces.__init__")
            /\ valid_files' = ValidFiles(req.files)
            /\ temp_paths' = << >>
            /\ results' = << >>
            /\ pc' = "upload_loop"
            /\ UNCHANGED << remoteCalls, response, pending, cleaned, unlink_failed >>
    /\ UNCHANGED << context, remote, answers, req, disk, gate >>

\* an iteration whose failure leaves the loop instead of continuing it
UploadFileNoTemp_abort ==
    /\ pc = "upload_loop"
    /\ Len(results) < Len(valid_files)
    /\ LET file == valid_files[Len(results) + 1]
       IN  /\ results' = Append(results, FileResult(file, Raise("OSError", <<"<no temporary file>">>)))
           /\ pending' = Return(UploadSummary(results', req.folder))
    /\ cleaned' = 0
    /\ pc' = "upload_cleanup"
    /\ UNCHANGED << context, remote, answers, req, response, handlerRan, adapterCalls, remoteCalls, disk,
                    valid_files, temp_paths, unlink_failed, gate >>

\* one iteration of "for file in valid_files": NamedTemporaryFile fails
UploadFileNoTemp ==
    /\ pc = "upload_loop"
    /\ Len(results) < Len(valid_files)
    /\ LET file == valid_files[Len(results) + 1]
       IN  results' = Append(results, FileResult(file, Raise("OSError", <<"<no temporary file>">>)))
    /\ UNCHANGED << context, remote, answers, pc, req, response, handlerRan, adapterCalls, remoteCalls, disk,
                    valid_files, temp_paths, cleaned, unlink_failed, pending, gate >>

\* an iteration whose file.save error is not caught: it leaves the handler
\* through the finally block
UploadFileSaveFails_escape ==
    /\ pc = "upload_loop"
    /\ Len(results) < Len(valid_files)
    /\ LET temp_path == NamedTemporaryFile(disk)
       IN  /\ disk' = disk \cup {temp_path}
           /\ temp_paths' = Append(temp_paths, temp_path)
    /\ pending' = Raise("OSError", <<"<save failed>">>)
    /\ cleaned' = 0
    /\ pc' = "upload_cleanup"
    /\ UNCHANGED << context, remote, answers, req, response, handlerRan, adapterCalls, remoteCalls,
                    valid_files, results, unlink_failed, gate >>

\* one iteration: the temporary file is created under a name not in use,
\* then file.save fails
UploadFileSaveFails ==
    /\ pc = "upload_loop"
    /\ Len(results) < Len(valid_files)
    /\ LET temp_path == NamedTemporaryFile(disk)
       IN  /\ disk' = disk \cup {temp_path}
           /\ temp_paths' = Append(temp_paths, temp_path)
    /\ LET file == valid_files[Len(results) + 1]
       IN  results' = Append(results, FileResult(file, Raise("OSError", <<"<save failed>">>)))
    /\ UNCHANGED << context, remote, answers, pc, req, response, handlerRan, adapterCalls, remoteCalls,
                    valid_files, cleaned, unlink_failed, pending, gate >>

\* one iteration: the temporary file is created and saved, and
\* kb.upload_file returns the key or raises
UploadFileSend ==
    /\ pc = "upload_loop"
    /\ Len(results) < Len(valid_files)
    /\ LET temp_path == NamedTemporaryFile(disk)
       IN  /\ disk' = disk \cup {temp_path}
           /\ temp_paths' = Append(temp_paths, temp_path)
    /\ LET file == valid_files[Len(results) + 1]
       IN  \E vendor \in S3Outcomes(<< >>) :
             results' = Append(results,
                 FileResult(file, Spaces_upload_file(TRUE, req.folder, file, vendor)))
    /\ adapterCalls' = Append(adapterCalls, "Spaces.upload_file")
    /\ remoteCalls' = Append(remoteCalls, "put_object")
    /\ UNCHANGED << context, remote, answers, pc, req, response, handlerRan, valid_files, cleaned, unlink_failed,
                    pending, gate >>

\* the loop is over: the summary is the handler's result, held while the
\* finally block runs
UploadReturn ==
    /\ pc = "upload_loop"
    /\ Len(results) = Len(valid_files)
    /\ pending' = Return(UploadSummary(results, req.folder))
    /\ cleaned' = 0
    /\ pc' = "upload_cleanup"
    /\ UNCHANGED << context, remote, answers, req, response, handlerRan, adapterCalls, remoteCalls, disk,
                    valid_files, temp_paths, results, unlink_failed, gate >>

\* the finally block with the try around the whole loop: the first os.unlink
\* that raises ends the cleanup
UploadCleanup_stop_on_error ==
    /\ pc = "upload_cleanup"
    /\ cleaned < Len(temp_paths)
    /\ LET temp_path == temp_paths[cleaned + 1]
       IN  IF temp_path \in disk
           THEN \E unlinked \in BOOLEAN :
                    /\ disk' = IF unlinked THEN disk \ {temp_path} ELSE disk
                    /\ unlink_failed' =
                         IF unlinked THEN unlink_failed ELSE unlink_failed \cup {temp_path}
                    /\ cleaned' = IF unlinked THEN cleaned + 1 ELSE Len(temp_paths)
           ELSE disk' = disk /\ unlink_failed' = unlink_failed /\ cleaned' = cleaned + 1
    /\ UNCHANGED << context, remote, answers, pc, req, response, handlerRan, adapterCalls, remoteCalls,
                    valid_files, temp_paths, results, pending, gate >>

\* the finally block, one temp_path at a time: os.unlink removes the file or
\* raises, and the error is ignored
UploadCleanup ==
    /\ pc = "upload_cleanup"
    /\ cleaned < Len(temp_paths)
    /\ LET temp_path == temp_paths[cleaned + 1]
       IN  IF temp_path \in disk
           THEN \E unlinked \in BOOLEAN :
                    /\ disk' = IF unlinked THEN disk \ {temp_path} ELSE disk
                    /\ unlink_failed' =
                         IF unlinked THEN unlink_failed ELSE unlink_failed \cup {temp_path}
           ELSE disk' = disk /\ unlink_failed' = unlink_failed
    /\ cleaned' = cleaned + 1
    /\ UNCHANGED << context, remote, answers, pc, req, response, handlerRan, adapterCalls, remoteCalls,
                    valid_files, temp_paths, results, pending, gate >>

\* the finally block is over: the wrapper answers
UploadRespond ==
    /\ pc = "upload_cleanup"
    /\ cleaned = Len(temp_paths)
    /\ response' = handle_response(pending)
    /\ pc' = "done"
    /\ UNCHANGED << context, remote, answers, req, handlerRan, adapterCalls, remoteCalls, disk, uploadVars,
                    pending, gate >>

Next ==
    \/ Receive
    \/ BeforeRequest
    \/ AutomaticOptions
    \/ HealthCheck
    \/ DeleteFile
    \/ ListFiles
    \/ ListAgents
    \/ CreateAgent
    \/ GetAgent
    \/ DeleteAgent
    \/ ListAgentApiKeys
    \/ CreateAgentApiKey
    \/ AttachAgentKnowledgeBase
    \/ ListKnowledgeBases
    \/ CreateKnowledgeBase
    \/ GetKnowledgeBase
    \/ DeleteKnowledgeBase
    \/ ListDataSources
    \/ ReindexKnowledgebase
    \/ ListModels
    \/ ListOpensearchDatabases
    \/ ListBuckets
    \/ CreateBucket
    \/ GetBucket
    \/ DeleteBucket
    \/ UploadBegin
    \/ UploadFileNoTemp
    \/ UploadFileSaveFails
    \/ UploadFileSend
    \/ UploadReturn
    \/ UploadCleanup
    \/ UploadRespond

Spec == Init /\ [][Next]_vars

\* ------------------------------------------------------- request sequences
\* A client that holds the credential sends one request after the other to a
\* configured server; the remote services are in a definite state that only
\* the requests change, and their reachability stays as it is.
\* every setting is set; the object store is empty or has a bucket that
\* holds objects
SessionInit ==
    /\ env = [API_BEARER_TOKEN |-> <<"a">>, SPACES_KEY |-> <<"v">>, SPACES_SECRET |-> <<"v">>,
              DIGITALOCEAN_API_TOKEN |-> <<"v">>, DEFAULT_WORKSPACE_UUID |-> <<"v">>,
              DEFAULT_MODEL_UUID |-> <<"v">>, DEFAULT_REGION |-> <<"v">>]
    /\ pc = "idle"
    /\ req = NoRequest
    /\ response = PassThrough
    /\ handlerRan = {}
    /\ adapterCalls = << >>
    /\ remoteCalls = << >>
    /\ disk = {}
    /\ valid_files = << >>
    /\ temp_paths = << >>
    /\ results = << >>
    /\ cleaned = 0
    /\ unlink_failed = {}
    /\ pending = NoPending
    /\ gate = "none"
    /\ remote \in { Store(s3, genai, buckets, buckets) :
                      s3 \in {"up", "down"}, genai \in {"up", "down"},
                      buckets \in {{}, {<<"a">>}} }
    /\ answers = << >>
    /\ prev = [req |-> NoRequest, response |-> PassThrough, remote |-> remote]
    /\ threads = [r \in Threads |-> NoUpload]
    /\ creator = [p \in TmpNames |-> 0]
    /\ bulk = NoBulk

\* a request of the client arrives, to a list or fetch route or to the
\* creation or deletion of a bucket; a bucket is created in the region the
\* adapter uses by default
SessionReceive ==
    /\ pc = "idle"
    /\ \E e \in { f \in Endpoints : f[1] = "GET" /\ f[2] # "health_check" }
                 \cup { <<"POST", "create_bucket">>, <<"DELETE", "delete_bucket">> } :
         \E i \in IdsOf(e[1], e[2]),
            b \in IF e[2] = "create_bucket"
                  THEN { Object([name |-> JStr(n)]) : n \in BucketNames }
                  ELSE { NoBody } :
            req' = [method |-> e[1], route |-> e[2],
                    auth |-> BearerPrefix \o env["API_BEARER_TOKEN"],
                    files |-> << >>, folder |-> << >>, key |-> None, id |-> i, body |-> b]
    /\ pc' = "gate"
    /\ UNCHANGED << context, remote, answers, response, handlerRan, adapterCalls, remoteCalls,
                    disk, uploadVars, pending, gate >>

\* the response is sent: the server is ready for the next request
NextRequest ==
    /\ pc = "done"
    /\ prev' = [req |-> req, response |-> response, remote |-> remote]
    /\ pc' = "idle"
    /\ req' = NoRequest
    /\ response' = PassThrough
    /\ handlerRan' = {}
    /\ adapterCalls' = << >>
    /\ remoteCalls' = << >>
    /\ answers' = << >>
    /\ pending' = NoPending
    /\ gate' = "none"
    /\ UNCHANGED << env, remote, disk, uploadVars, threads, creator, bulk >>

SessionNext ==
    \/ SessionReceive
    \/ BeforeRequest
    \/ ListFiles
    \/ ListBuckets
    \/ GetBucket
    \/ ListAgents
    \/ GetAgent
    \/ ListAgentApiKeys
    \/ ListKnowledgeBases
    \/ GetKnowledgeBase
    \/ ListDataSources
    \/ ListModels
    \/ ListOpensearchDatabases
    \/ CreateBucket
    \/ DeleteBucket
    \/ NextRequest

Session == SessionInit /\ [][SessionNext]_vars

\* ---------------------------------------------------------------- start-up
\* create_app(): the factory raises when the bearer secret is not set,
\* otherwise it registers the gate and the routes and returns the application
create_app_unchecked(e) == Return(<<"app">>)

create_app(e) ==
    IF ~Truthy(e["API_BEARER_TOKEN"]) THEN
        Raise("ValueError", <<"API_BEARER_TOKEN environment variable is required">>)
    ELSE Return(<<"app">>)

\* the process before "app = create_app()" has run
StartupInit ==
    /\ env \in Envs
    /\ pc = "start"
    /\ req = NoRequest
    /\ response = PassThrough
    /\ handlerRan = {}
    /\ adapterCalls = << >>
    /\ remoteCalls = << >>
    /\ disk = {}
    /\ valid_files = << >>
    /\ temp_paths = << >>
    /\ results = << >>
    /\ cleaned = 0
    /\ unlink_failed = {}
    /\ pending = NoPending
    /\ gate = "none"
    /\ remote = Unobserved
    /\ answers = << >>
    /\ prev = [req |-> NoRequest, response |-> PassThrough, remote |-> Unobserved]
    /\ threads = [r \in Threads |-> NoUpload]
    /\ creator = [p \in TmpNames |-> 0]
    /\ bulk = NoBulk

\* app = create_app(): an error of the factory ends the process, with the
\* application the server takes requests
CreateApp ==
    /\ pc = "start"
    /\ pc' = IF create_app(env).kind = "raise" THEN "failed" ELSE "idle"
    /\ UNCHANGED << context, remote, answers, req, response, handlerRan, adapterCalls,
                    remoteCalls, disk, uploadVars, pending, gate >>

StartupNext == CreateApp \/ Next

Startup == StartupInit /\ [][StartupNext]_vars

\* ------------------------------------------------------- concurrent uploads
\* Upload requests served at the same time, each in its own call of
\* upload_file, step by step: the calls share the directory of temporary
\* files and nothing else.  A request is taken from behind the validation
\* and the construction of the adapter.
UploadsInit ==
    /\ Init
    /\ Missing(env) = {}

\* the request enters the try block with its valid_files
UploadStart(r) ==
    /\ threads[r].pc = "none"
    /\ \E n \in 1..MaxFiles :
         threads' = [threads EXCEPT ![r] = [NoUpload EXCEPT !.pc = "loop", !.n = n]]
    /\ UNCHANGED << env, prev, bulk, creator, pc, req, response, handlerRan, adapterCalls,
                    remoteCalls, disk, uploadVars, pending, gate, remote, answers >>

\* the next iteration begins: tempfile.NamedTemporaryFile(delete=False)
\* creates a file under a name no file has and temp_paths.append(temp_path),
\* or it raises and the failure is the file's result
CreateTemp(r) ==
    LET t == threads[r]
    IN  /\ t.pc = "loop"
        /\ Len(t.results) < t.n
        /\ \/ /\ threads' = [threads EXCEPT ![r].started = Len(t.results) + 1,
                                            ![r].results = Append(t.results, FALSE)]
              /\ UNCHANGED << disk, creator >>
           \/ LET temp_path == NamedTemporaryFile(disk)
              IN  /\ disk' = disk \cup {temp_path}
                  /\ creator' = [creator EXCEPT ![temp_path] = r]
                  /\ threads' = [threads EXCEPT ![r].started = Len(t.results) + 1,
                                                ![r].temp_paths = Append(t.temp_paths, temp_path),
                                                ![r].pc = "save"]
        /\ UNCHANGED << env, prev, bulk, pc, req, response, handlerRan, adapterCalls,
                        remoteCalls, uploadVars, pending, gate, remote, answers >>

\* file.save(temp_path); temp_file.close(): done, or the error is the file's
\* result
SaveFile(r) ==
    LET t == threads[r]
    IN  /\ t.pc = "save"
        /\ \/ threads' = [threads EXCEPT ![r].pc = "send"]
           \/ threads' = [threads EXCEPT ![r].results = Append(t.results, FALSE),
                                         ![r].pc = "loop"]
        /\ UNCHANGED << env, prev, bulk, creator, pc, req, response, handlerRan, adapterCalls,
                        remoteCalls, disk, uploadVars, pending, gate, remote, answers >>

\* an upload that is started and not waited for: the result is recorded at
\* once
SendFile_async(r) ==
    LET t == threads[r]
    IN  /\ t.pc = "send"
        /\ threads' = [threads EXCEPT ![r].inflight = t.inflight \cup {Len(t.results) + 1},
                                      ![r].results = Append(t.results, TRUE),
                                      ![r].pc = "loop"]
        /\ UNCHANGED << env, prev, bulk, creator, pc, req, response, handlerRan, adapterCalls,
                        remoteCalls, disk, uploadVars, pending, gate, remote, answers >>

\* key = kb.upload_file(...): the call is made and the handler waits in it
SendFile(r) ==
    LET t == threads[r]
    IN  /\ t.pc = "send"
        /\ threads' = [threads EXCEPT ![r].inflight = t.inflight \cup {Len(t.results) + 1},
                                      ![r].pc = "wait"]
        /\ UNCHANGED << env, prev, bulk, creator, pc, req, response, handlerRan, adapterCalls,
                        remoteCalls, disk, uploadVars, pending, gate, remote, answers >>

\* kb.upload_file returns the key or raises, and results.append(...)
RecordResult(r) ==
    LET t == threads[r]
    IN  /\ t.pc = "wait"
        /\ \E success \in BOOLEAN :
             threads' = [threads EXCEPT ![r].inflight = t.inflight \ {Len(t.results) + 1},
                                        ![r].results = Append(t.results, success),
                                        ![r].pc = "loop"]
        /\ UNCHANGED << env, prev, bulk, creator, pc, req, response, handlerRan, adapterCalls,
                        remoteCalls, disk, uploadVars, pending, gate, remote, answers >>

\* the finally block behind the loop, one entry of temp_paths at a time:
\* "if os.path.exists(temp_path): os.unlink(temp_path)", errors ignored
CleanupPath(r) ==
    LET t == threads[r]
    IN  /\ t.pc = "loop"
        /\ Len(t.results) = t.n
        /\ t.cleaned < Len(t.temp_paths)
        /\ LET temp_path == t.temp_paths[t.cleaned + 1]
           IN  \/ /\ temp_path \in disk
                  /\ disk' = disk \ {temp_path}
                  /\ creator' = [creator EXCEPT ![temp_path] = 0]
               \/ UNCHANGED << disk, creator >>
        /\ threads' = [threads EXCEPT ![r].cleaned = t.cleaned + 1]
        /\ UNCHANGED << env, prev, bulk, pc, req, response, handlerRan, adapterCalls,
                        remoteCalls, uploadVars, pending, gate, remote, answers >>

UploadsNext ==
    \E r \in Threads :
        \/ UploadStart(r)
        \/ CreateTemp(r)
        \/ SaveFile(r)
        \/ SendFile(r)
        \/ RecordResult(r)
        \/ CleanupPath(r)

Uploads == UploadsInit /\ [][UploadsNext]_vars

\* -------------------------------------------------------------- bulk delete
\* Spaces.delete_files(keys), one iteration of its loop at a time.
\* "batch_size = 1000": the model deletes in batches of two, so that lists
\* of several batches stay short
batch_size == 2

\* what delete_objects answers for a batch: every key deleted, the keys "a"
\* deleted and the others refused, a response that names no key, an error
\* answer (ClientError), or no answer at all
DeleteObjectsAnswers(batch) ==
    LET Entry(j) == [Key |-> batch[j]]
        Refusal(j) == [Key |-> batch[j], Code |-> <<"AccessDenied">>,
                       Message |-> <<"Access Denied">>]
        IsA(o) == o.Key = <<"a">>
        NotA(o) == o.Key # <<"a">>
    IN  { VendorOk([Deleted |-> [j \in 1..Len(batch) |-> Entry(j)]]),
          VendorOk([Deleted |-> SelectSeq([j \in 1..Len(batch) |-> Entry(j)], IsA),
                    Errors |-> SelectSeq([j \in 1..Len(batch) |-> Refusal(j)], NotA)]),
          VendorOk(EmptyMapping),
          ClientError("AccessDenied"),
          VendorError("EndpointConnectionError") }

\* the body of the loop for one batch: the results it appends, or the
\* exception that "except ClientError" does not catch
Spaces_delete_files_batch(batch, vendor) ==
    IF vendor.kind = "ok" THEN
        LET Deleted == IF "Deleted" \in DOMAIN vendor.value
                       THEN vendor.value.Deleted ELSE << >>
            Errors == IF "Errors" \in DOMAIN vendor.value
                      THEN vendor.value.Errors ELSE << >>
            deleted_keys == { Deleted[j].Key : j \in 1..Len(Deleted) }
            \* the dict comprehension keeps the last message of a key
            errors(key) ==
                Errors[CHOOSE j \in 1..Len(Errors) :
                          /\ Errors[j].Key = key
                          /\ \A l \in (j + 1)..Len(Errors) : Errors[l].Key # key].Message
        IN  Return([j \in 1..Len(batch) |->
                      IF batch[j] \in deleted_keys THEN
                          [key |-> batch[j], success |-> TRUE, error |-> None]
                      ELSE IF \E l \in 1..Len(Errors) : Errors[l].Key = batch[j] THEN
                          [key |-> batch[j], success |-> FALSE, error |-> errors(batch[j])]
                      ELSE [key |-> batch[j], success |-> FALSE,
                            error |-> <<"Unknown error during deletion">>]])
    ELSE IF vendor.cls = "ClientError" THEN
        Return([j \in 1..Len(batch) |->
                  [key |-> batch[j], success |-> FALSE, error |-> vendor.text]])
    ELSE Raise(vendor.cls, vendor.text)

\* delete_files(keys): "if not keys: return []", else results = []
DeleteFilesCall ==
    /\ bulk.pc = "none"
    /\ \E keys \in UNION { [1..n -> BucketNames] : n \in 0..MaxKeys } :
         bulk' = IF Len(keys) = 0 THEN [NoBulk EXCEPT !.pc = "returned"]
                 ELSE [NoBulk EXCEPT !.pc = "loop", !.keys = keys]
    /\ UNCHANGED << env, prev, threads, creator, pc, req, response, handlerRan, adapterCalls,
                    remoteCalls, disk, uploadVars, pending, gate, remote, answers >>

\* one iteration of "for i in range(0, len(keys), batch_size)": the batch
\* keys[i:i + batch_size] goes to delete_objects and its results are appended
DeleteBatch ==
    /\ bulk.pc = "loop"
    /\ bulk.i < Len(bulk.keys)
    /\ LET last == IF bulk.i + batch_size < Len(bulk.keys)
                   THEN bulk.i + batch_size ELSE Len(bulk.keys)
           batch == SubSeq(bulk.keys, bulk.i + 1, last)
       IN  \E vendor \in DeleteObjectsAnswers(batch) :
             LET done == Spaces_delete_files_batch(batch, vendor)
             IN  bulk' = IF done.kind = "raise" THEN
                             [bulk EXCEPT !.pc = "raised", !.exc = done.exc.cls,
                                          !.calls = Append(@, batch),
                                          !.outcomes = Append(@, vendor.kind)]
                         ELSE [bulk EXCEPT !.i = @ + batch_size,
                                           !.results = @ \o done.value,
                                           !.calls = Append(@, batch),
                                           !.outcomes = Append(@, vendor.kind)]
    /\ UNCHANGED << env, prev, threads, creator, pc, req, response, handlerRan, adapterCalls,
                    remoteCalls, disk, uploadVars, pending, gate, remote, answers >>

\* the loop is over: "return results"
DeleteFilesReturn ==
    /\ bulk.pc = "loop"
    /\ bulk.i >= Len(bulk.keys)
    /\ bulk' = [bulk EXCEPT !.pc = "returned"]
    /\ UNCHANGED << env, prev, threads, creator, pc, req, response, handlerRan, adapterCalls,
                    remoteCalls, disk, uploadVars, pending, gate, remote, answers >>

BulkNext == DeleteFilesCall \/ DeleteBatch \/ DeleteFilesReturn

\* the adapter is configured, as in the concurrent uploads
Bulk == UploadsInit /\ [][BulkNext]_vars

\* ------------------------------------------------------------------ claims
Served == pc \notin {"idle", "gate"}
TokenSet == env["API_BEARER_TOKEN"] # None /\ env["API_BEARER_TOKEN"] # << >>
ValidCredential == req.auth = BearerPrefix \o env["API_BEARER_TOKEN"]
NothingRan == handlerRan = {} /\ adapterCalls = << >> /\ remoteCalls = << >>

\* C1: with the expected token set, a non-OPTIONS request to a route other
\* than liveness passes the gate if and only if its Authorization header is
\* 'Bearer ' followed by the expected token; otherwise the answer is 401 with
\* status 'error' and neither a handler nor an adapter call runs.
C1_GateIffExactBearer ==
    (Served /\ TokenSet /\ req.method # "OPTIONS" /\ req.route # "health_check") =>
        IF ValidCredential
        THEN gate = "pass"
        ELSE /\ gate = "reject"
             /\ pc = "done"
             /\ response.code = 401
             /\ response.body.status = <<"error">>
             /\ NothingRan

\* a well-formed header with a wrong token was rejected
C1_Witness ==
    /\ pc = "done" /\ TokenSet /\ req.method = "POST" /\ req.route = "upload_file"
    /\ req.auth # None /\ StartsWith(req.auth, BearerPrefix) /\ ~ValidCredential
    /\ response.code = 401 /\ NothingRan

\* C2: with the expected token unset (or empty), the gate answers every
\* request, OPTIONS included and whatever its header, with 500 and an error
\* envelope, and no handler runs.
C2_UnsetTokenFailsClosed ==
    (Served /\ ~TokenSet) =>
        /\ gate = "reject"
        /\ pc = "done"
        /\ response.code = 500
        /\ response.body.status = <<"error">>
        /\ NothingRan

\* an OPTIONS request was answered 500 because the token is unset
C2_Witness ==
    /\ pc = "done" /\ env["API_BEARER_TOKEN"] = None /\ req.method = "OPTIONS"
    /\ response.code = 500 /\ NothingRan

\* C3: with the expected token set, an OPTIONS request passes the gate and
\* goes on to routing whatever its Authorization header is.
C3_OptionsBypass ==
    (Served /\ TokenSet /\ req.method = "OPTIONS") =>
        /\ gate = "pass"
        /\ response.code \notin {401, 500}
        /\ pc = "done" => response.code = 200

\* an OPTIONS request with a malformed header went through to routing
C3_Witness ==
    /\ pc = "done" /\ TokenSet /\ req.method = "OPTIONS"
    /\ req.auth # None /\ req.auth # << >> /\ ~StartsWith(req.auth, BearerPrefix)
    /\ gate = "pass" /\ response.code = 200

\* C4 as stated: with the expected token set, a GET / without an
\* Authorization header reaches the health handler and is answered 200.
C4_LivenessNeedsNoCredential ==
    (pc = "done" /\ TokenSet /\ req.method = "GET" /\ req.route = "health_check"
        /\ req.auth = None) =>
        response.code = 200 /\ "health_check" \in handlerRan

\* C4 amended: the gate is registered for every route, liveness included; a
\* GET / reaches the health handler and is answered 200 exactly when it
\* carries the valid bearer credential, and is answered 401 without running
\* the handler otherwise.
C4_LivenessBehindGate ==
    (pc = "done" /\ TokenSet /\ req.method = "GET" /\ req.route = "health_check") =>
        IF ValidCredential
        THEN /\ response.code = 200
             /\ response.body.status = <<"ok">>
             /\ handlerRan = {"health_check"}
        ELSE response.code = 401 /\ handlerRan = {}

\* a GET / without an Authorization header was answered 401
C4_Witness ==
    /\ pc = "done" /\ TokenSet /\ req.method = "GET" /\ req.route = "health_check"
    /\ req.auth = None /\ response.code = 401 /\ handlerRan = {}

\* the request ended in the wrapper with a result returned by the handler
WrappedReturned == pc = "done" /\ pending.kind = "return"
\* the request ended in the wrapper with an error raised by the handler
WrappedRaised == pc = "done" /\ pending.kind = "raise"

\* C5 as stated: when a wrapped handler returns a key-value result, the
\* answer is 200 and its body has status 'success' together with every key
\* and value of the result, for every result a handler or adapter can return.
C5_SuccessEnvelope ==
    WrappedReturned =>
        /\ response.code = 200
        /\ response.body.status = <<"success">>
        /\ \A k \in DOMAIN pending.value : response.body[k] = pending.value[k]

\* C5 amended: the answer is 200 and its body carries every key and value
\* of the result and no other key but status; status is 'success' when the
\* result has no status key of its own, and the result's status otherwise.
C5_SuccessEnvelopeMerged ==
    WrappedReturned =>
        /\ response.code = 200
        /\ DOMAIN response.body = DOMAIN pending.value \cup {"status"}
        /\ \A k \in DOMAIN pending.value : response.body[k] = pending.value[k]
        /\ "status" \notin DOMAIN pending.value => response.body.status = <<"success">>

\* a result with a status key of its own was wrapped
C5_Witness ==
    /\ WrappedReturned /\ req.route = "list_agents"
    /\ "status" \in DOMAIN pending.value
    /\ response.code = 200 /\ response.body.status = <<"degraded">>

\* C6: every error of a wrapped handler becomes one error envelope:
\* ValueError gives 400 with the error text, RuntimeError gives 500 with the
\* error text, any other error gives 500 with the text behind
\* 'An unexpected error occurred: '; the status is 'error' in all cases.
C6_ErrorEnvelope ==
    WrappedRaised =>
        /\ response.body.status = <<"error">>
        /\ DOMAIN response.body = {"status", "message"}
        /\ pending.exc.cls = "ValueError" =>
              response.code = 400 /\ response.body.message = pending.exc.text
        /\ pending.exc.cls = "RuntimeError" =>
              response.code = 500 /\ response.body.message = pending.exc.text
        /\ pending.exc.cls \notin {"ValueError", "RuntimeError"} =>
              /\ response.code = 500
              /\ response.body.message =
                    <<"An unexpected error occurred: ">> \o pending.exc.text

\* a dependency error raised by an adapter was answered 500 with its text
C6_Witness ==
    /\ WrappedRaised /\ pending.exc.cls = "RuntimeError" /\ req.route = "delete_file"
    /\ response.code = 500 /\ response.body.message = pending.exc.text

\* a filename that is absent, empty or made of spaces only
Blank(filename) ==
    filename = None \/ \A i \in 1..Len(filename) : filename[i] = " "
NonBlankFiles == SelectSeq(req.files, LAMBDA f : ~Blank(f))
UploadRequest == req.method = "POST" /\ req.route = "upload_file"
Range(seq) == { seq[i] : i \in 1..Len(seq) }

\* C7: an upload request with zero files, or with blank filenames only, is
\* answered 400, and no storage adapter is constructed, no temporary file is
\* created and no remote call is made for it.
C7_EmptyUploadRejected ==
    (UploadRequest /\ NonBlankFiles = << >>) =>
        /\ adapterCalls = << >>
        /\ remoteCalls = << >>
        /\ temp_paths = << >> /\ disk = {}
        /\ (pc = "done" /\ gate = "pass") => response.code = 400

\* files were supplied, all with blank filenames, and the answer was 400
C7_Witness ==
    /\ pc = "done" /\ UploadRequest /\ gate = "pass"
    /\ Len(req.files) = 2 /\ NonBlankFiles = << >>
    /\ response.code = 400 /\ adapterCalls = << >>

\* the upload handler has left its loop (it is in its finally block or done)
UploadLoopOver ==
    UploadRequest /\ (pc = "upload_cleanup" \/ (pc = "done" /\ pending.kind = "return"))

\* C8: the results list has exactly one entry {filename, key, success,
\* error} per supplied file with a non-blank filename, in input order; a
\* failed file is recorded with success false, key null and an error text,
\* and the files after it are still processed.
C8_OneResultPerFile ==
    UploadLoopOver =>
        /\ Len(results) = Len(NonBlankFiles)
        /\ pending.value.results = results
        /\ \A i \in 1..Len(results) :
              /\ DOMAIN results[i] = {"filename", "key", "success", "error"}
              /\ results[i].filename = NonBlankFiles[i]
              /\ results[i].success =>
                    results[i].key # None /\ results[i].error = None
              /\ ~results[i].success =>
                    results[i].key = None /\ results[i].error \notin {None, << >>}

\* the first file failed and the second one was still uploaded
C8_Witness ==
    /\ pc = "done" /\ UploadLoopOver /\ Len(results) = 2
    /\ ~results[1].success /\ results[2].success
    /\ results[1].filename # results[2].filename

\* C9 as stated: when the upload handler returns, none of the temporary
\* files it created still exists, whatever the outcome of each removal.
C9_NoTempFileLeft ==
    (pc = "done" /\ UploadRequest) => Range(temp_paths) \cap disk = {}

\* C9 amended: when the upload handler returns, every temporary file it
\* created has had its removal attempted, and the only ones that still exist
\* are those whose removal failed (the error of os.unlink is ignored).
C9_TempFilesRemovedUnlessUnlinkFails ==
    (pc = "done" /\ UploadRequest) =>
        /\ cleaned = Len(temp_paths)
        /\ Range(temp_paths) \cap disk = unlink_failed

\* two temporary files were created; the removal of one failed and the
\* other one is gone
C9_Witness ==
    /\ pc = "done" /\ UploadRequest /\ Len(temp_paths) = 2
    /\ Cardinality(unlink_failed) = 1 /\ Cardinality(disk) = 1

SuccessCount(rs) == Cardinality({ i \in 1..Len(rs) : rs[i].success })

\* C10: in the upload summary total is the number of results, successful
\* the number of results with success true, failed their difference, and the
\* message is 'All {total} ...', '{successful} of {total} ...' or 'No files
\* ...' for successful = total, 0 < successful < total, successful = 0; two
\* files of which the first fails give successful 1, failed 1, total 2.
C10_UploadSummary ==
    (WrappedReturned /\ UploadRequest) =>
        LET body == response.body
            n == Len(body.results)
            ok == SuccessCount(body.results)
        IN  /\ body.total = n
            /\ body.successful = ok
            /\ body.failed = n - ok
            /\ ok = n => body.message =
                  <<"All ">> \o Decimal(n) \o <<" file(s) uploaded successfully">>
            /\ (0 < ok /\ ok < n) => body.message =
                  Decimal(ok) \o <<" of ">> \o Decimal(n) \o <<" file(s) uploaded successfully">>
            /\ ok = 0 => body.message = <<"No files were uploaded successfully">>
            /\ (n = 2 /\ ~body.results[1].success /\ body.results[2].success) =>
                  /\ body.successful = 1 /\ body.failed = 1 /\ body.total = 2
                  /\ body.message = <<"1", " of ", "2", " file(s) uploaded successfully">>

\* two files, the first failed at the remote call and the second succeeded
C10_Witness ==
    /\ WrappedReturned /\ UploadRequest
    /\ response.body.total = 2 /\ response.body.successful = 1
    /\ ~response.body.results[1].success /\ response.body.results[2].success
    /\ response.body.message = <<"1", " of ", "2", " file(s) uploaded successfully">>
    /\ Len(remoteCalls) = 2

\* the request was served by this route's handler
ServedBy(method, route) ==
    pc = "done" /\ gate = "pass" /\ req.method = method /\ req.route = route
\* the storage adapter can be constructed: both credentials are set
SpacesConfigured ==
    /\ env["SPACES_KEY"] # None /\ env["SPACES_KEY"] # << >>
    /\ env["SPACES_SECRET"] # None /\ env["SPACES_SECRET"] # << >>

\* C11: once the upload handler has accepted at least one file with a
\* non-blank filename, the wrapper answers HTTP 200: no failure after the
\* validation (adapter construction, temporary file, save, remote upload)
\* reaches the wrapper as an error.
C11_UploadNeverFailsPastValidation ==
    (ServedBy("POST", "upload_file") /\ NonBlankFiles # << >>) => response.code = 200

\* C11 (amended): after the validation the construction of the storage
\* adapter can still fail and is answered 400 with the constructor's message,
\* before any temporary file or remote call; once the adapter is constructed
\* the answer is 200 whatever happens to the files.
C11_UploadFailsOnlyAtConstruction ==
    (ServedBy("POST", "upload_file") /\ NonBlankFiles # << >>) =>
        IF SpacesConfigured THEN
            /\ response.code = 200
            /\ pending.kind = "return"
            /\ Len(response.body.results) = Len(NonBlankFiles)
        ELSE
            /\ response.code = 400
            /\ response.body.status = <<"error">>
            /\ response.body.message = <<"Spaces credentials not found. Set SPACES_KEY and SPACES_SECRET environment variables or pass them as parameters.">>
            /\ adapterCalls = <<"Spaces.__init__">>
            /\ remoteCalls = << >> /\ temp_paths = << >> /\ disk = {}

\* an accepted upload answered 200 although a file could not be saved and
\* another one was refused by the object store
C11_Witness ==
    /\ ServedBy("POST", "upload_file") /\ Len(NonBlankFiles) = 2
    /\ response.code = 200
    /\ response.body.failed = 2
    /\ Len(remoteCalls) = 1 /\ Len(temp_paths) = 2

\* the value the request body gives a field, null when it gives none
Field(k) ==
    IF req.body.json = "object" /\ k \in DOMAIN req.body.fields
    THEN req.body.fields[k] ELSE JNull
\* the value is a string with a character that is not a space
NonBlankString(v) == v.t = "str" /\ \E i \in 1..Len(v.s) : v.s[i] # " "
\* the first vendor call of the handler failed or gave an empty response
FirstCallFailed ==
    /\ answers # << >>
    /\ IF answers[1].kind = "error" THEN TRUE ELSE DOMAIN answers[1].value = {}

CreateRoutes ==
    { "create_agent", "create_knowledge_base", "create_bucket", "create_agent_api_key",
      "reindex_knowledgebase" }
RequiredFields(route) ==
    CASE route = "create_agent" -> {"name", "instructions"}
      [] route = "reindex_knowledgebase" -> {"knowledge_base_uuid"}
      [] OTHER -> {"name"}
\* the required fields the JSON object of the request does not have
OmittedFields == { f \in RequiredFields(req.route) : f \notin DOMAIN req.body.fields }
\* the path parameter, where the route has one, is not blank
PathIdGiven == req.id = None \/ \E i \in 1..Len(req.id) : req.id[i] # " "

\* C13: on every create endpoint (agent, knowledge base, bucket, agent API
\* key, re-index job) a body that omits a required field, the empty JSON
\* object included, is answered 400 with a message that names an omitted
\* field (the first required field the body fails to give), and no adapter
\* call is made.
C13_OmittedFieldIsNamed ==
    ( /\ pc = "done" /\ gate = "pass" /\ req.method = "POST"
      /\ req.route \in CreateRoutes /\ PathIdGiven
      /\ req.body.json = "object" /\ OmittedFields # {} ) =>
        /\ response.code = 400
        /\ \E f \in RequiredFields(req.route) :
              ~NonBlankString(Field(f)) /\ Contains(response.body.message, <<f>>)
        /\ adapterCalls = << >> /\ remoteCalls = << >>

\* the empty JSON object sent to the create-agent endpoint: the answer is
\* 400 with a message that names neither field
C13_Witness ==
    /\ ServedBy("POST", "create_agent")
    /\ req.body = Object(EmptyMapping)
    /\ response.code = 400
    /\ response.body.message = <<"Request body must be provided">>

\* the handlers that expect a resource to exist, and which of their vendor
\* calls are existence lookups
LookupCalls ==
    CASE req.route = "get_agent" /\ req.method = "GET" -> {1}
      [] req.route = "delete_agent" /\ req.method = "DELETE" -> {1}
      [] req.route = "attach_agent_knowledge_base" /\ req.method = "POST" -> {1, 2}
      [] req.route = "get_knowledge_base" /\ req.method = "GET" -> {1}
      [] req.route = "delete_knowledge_base" /\ req.method = "DELETE" -> {1}
      [] OTHER -> {}
\* the id of the resource the i-th lookup looks for
LookedUp(i) ==
    IF req.route = "attach_agent_knowledge_base" /\ i = 2
    THEN Field("knowledge_base_uuid").s ELSE req.id
\* the i-th vendor call of the handler returned an empty response
EmptyAnswer(i) ==
    /\ Len(answers) >= i
    /\ answers[i].kind = "ok"
    /\ DOMAIN answers[i].value = {}

\* C14: in get agent, delete agent, attach knowledge base, get knowledge base
\* and delete knowledge base, an empty result of the existence lookup ends
\* the request with 400 and a message that carries the resource id, and the
\* handler makes no later adapter call.
C14_EmptyLookupIsNotFound ==
    (pc = "done" /\ gate = "pass") =>
        \A i \in LookupCalls :
            EmptyAnswer(i) =>
                /\ response.code = 400
                /\ Contains(response.body.message, LookedUp(i))
                /\ Contains(response.body.message, <<"' not found">>)
                /\ Len(remoteCalls) = i

\* delete agent with an empty lookup result: the answer is 500, the error of
\* reading agent['agent']
C14_Witness ==
    /\ ServedBy("DELETE", "delete_agent")
    /\ EmptyAnswer(1)
    /\ response.code = 500
    /\ response.body.message = <<"An unexpected error occurred: ", "'agent'">>
    /\ remoteCalls = <<"genai.get_agent">>

\* the routes whose handler calls the object-storage adapter in one piece
StorageRoutes ==
    { "delete_file", "list_files", "list_buckets", "create_bucket", "get_bucket",
      "delete_bucket" }
\* a vendor call of the handler failed
VendorFailed == \E i \in 1..Len(answers) : answers[i].kind = "error"
\* a vendor call of the handler failed with an error that is not botocore's
\* ClientError
FailedOtherwise ==
    \E i \in 1..Len(answers) : answers[i].kind = "error" /\ answers[i].cls # "ClientError"
\* the response is the wrapper's answer to an unclassified error
Unclassified ==
    /\ response.code = 500
    /\ response.body.message[1] = "An unexpected error occurred: "
\* the response is the wrapper's answer to a dependency failure
DependencyFailure ==
    /\ response.code = 500
    /\ response.body.status = <<"error">>
    /\ response.body.message[1] # "An unexpected error occurred: "

EqualIgnoringCase(a, b) ==
    /\ Len(a) = Len(b)
    /\ \A i \in 1..Len(a) :
          \/ a[i] = b[i]
          \/ \E j \in 1..26 : {a[i], b[i]} = {UpperCase[j], LowerCase[j]}
\* the cluster has an engine field that says opensearch in any case
IsOpensearchEntry(db) ==
    "engine" \in DOMAIN db /\ EqualIgnoringCase(db.engine, Opensearch)
\* the vendor answered the listing with a list of clusters
ClustersListed ==
    /\ ServedBy("GET", "list_opensearch_databases")
    /\ answers # << >> /\ answers[1].kind = "ok"
    /\ {"databases", "array"} \cap DOMAIN answers[1].value # {}
\* the vendor's cluster list
VendorClusters ==
    IF "databases" \in DOMAIN answers[1].value
    THEN answers[1].value.databases ELSE answers[1].value.array

\* C16: the managed-database listing returns exactly the entries of the
\* vendor's cluster list whose engine is 'opensearch' ignoring case, in the
\* vendor's order, with count the number of entries returned; an entry with
\* another engine or without an engine field is not returned.  For the
\* engines 'opensearch', 'OPENSEARCH', 'postgres' it returns the first two
\* entries and count 2.
C16_OpensearchOnly ==
    ClustersListed =>
        /\ response.code = 200
        /\ response.body.databases = SelectSeq(VendorClusters, IsOpensearchEntry)
        /\ response.body.count = Len(response.body.databases)
        /\ VendorClusters = ExampleClusters =>
              /\ response.body.databases = << Cluster(1, Opensearch), Cluster(2, OPENSEARCH) >>
              /\ response.body.count = 2

\* the listing for the engines 'opensearch', 'OPENSEARCH', 'postgres'
C16_Witness ==
    /\ ClustersListed
    /\ VendorClusters = ExampleClusters
    /\ Len(response.body.databases) = 2
    /\ response.body.databases[2].engine = OPENSEARCH
    /\ response.body.count = 2

\* the re-index body gives a knowledge_base_uuid that is a non-blank string
UuidGiven == NonBlankString(Field("knowledge_base_uuid"))
\* the re-index body has no data_source_uuids field
SourcesAbsent ==
    req.body.json = "none" \/ "data_source_uuids" \notin DOMAIN req.body.fields
\* data_source_uuids is a list whose every item is a non-blank string
SourcesListed ==
    /\ Field("data_source_uuids").t = "list"
    /\ \A i \in 1..Len(Field("data_source_uuids").items) :
          NonBlankString(Field("data_source_uuids").items[i])
\* the handler called the indexing adapter
ReachedIndexing ==
    \E i \in 1..Len(adapterCalls) : adapterCalls[i] = "IndexingJobs.create_indexing_job"

\* C20: a re-index request reaches the indexing adapter only if
\* knowledge_base_uuid is a non-blank string and data_source_uuids is absent
\* or a list whose every item is a non-blank string; every other body is
\* answered 400 and no indexing job is created.
C20_ReindexValidated ==
    ServedBy("POST", "reindex_knowledgebase") =>
        LET accepted == UuidGiven /\ (SourcesAbsent \/ SourcesListed)
        IN  /\ ReachedIndexing => accepted
            /\ ~accepted => (response.code = 400 /\ remoteCalls = << >>)

\* C20 (amended): data_source_uuids can also be null, which the handler
\* treats like an absent field.
C20_ReindexValidatedNullAllowed ==
    ServedBy("POST", "reindex_knowledgebase") =>
        LET accepted ==
                UuidGiven /\ (SourcesAbsent \/ Field("data_source_uuids").t = "null"
                                \/ SourcesListed)
        IN  /\ ReachedIndexing => accepted
            /\ ~accepted =>
                  /\ response.code = 400
                  /\ adapterCalls = << >> /\ remoteCalls = << >>

\* a body whose data_source_uuids is null created an indexing job
C20_Witness ==
    /\ ServedBy("POST", "reindex_knowledgebase")
    /\ ~SourcesAbsent /\ Field("data_source_uuids") = JNull
    /\ remoteCalls = <<"genai.create_indexing_job">>
    /\ response.code = 200
    /\ response.body.message = <<"Re-indexing job created successfully">>

\* the request before this one created bucket n and this one fetched the
\* info of bucket n
CreatedThenFetched(n) ==
    /\ prev.req.method = "POST" /\ prev.req.route = "create_bucket"
    /\ prev.req.body = Object([name |-> JStr(n)])
    /\ prev.response.code = 200
    /\ pc = "done" /\ req.method = "GET" /\ req.route = "get_bucket" /\ req.id = n

C18_NonEmptyBucketNotDeleted ==
    ( /\ pc = "done" /\ req.method = "DELETE" /\ req.route = "delete_bucket"
      /\ prev.remote.s3 = "up" /\ req.id \in prev.remote.holding ) =>
        /\ response.code = 500
        /\ response.body.status = <<"error">>
        /\ Contains(response.body.message, <<"not empty">>)
        /\ remote = prev.remote
        /\ req.id \in remote.buckets /\ req.id \in remote.holding

\* the deletion of bucket a, which holds objects, was refused
C18_Witness ==
    /\ pc = "done" /\ req.method = "DELETE" /\ req.route = "delete_bucket"
    /\ req.id = <<"a">> /\ <<"a">> \in prev.remote.holding
    /\ remoteCalls = <<"delete_bucket">>
    /\ answers = << ClientError("BucketNotEmpty") >>
    /\ response.code = 500
    /\ response.body.message =
          <<"Bucket '", "a", "' is ", "not empty", ". Delete all objects first.">>

\* the vendor calls that read
ReadCalls ==
    { "list_objects_v2", "list_buckets", "get_bucket_location", "get_bucket_acl",
      "genai.list_agents", "genai.get_agent", "genai.list_agent_api_keys",
      "genai.list_knowledge_bases", "genai.get_knowledge_base",
      "genai.list_knowledge_base_data_sources", "genai.list_models",
      "databases.list_clusters" }
\* a list or fetch request has been answered
Fetched == pc = "done" /\ req.method = "GET" /\ req.route # "health_check"

\* C19: a GET list or fetch endpoint makes no creating, updating or deleting
\* call on the remote services and leaves no temporary file: remote state and
\* disk are as before; and the same request repeated against unchanged
\* remote state gets an equal response.
C19_FetchIsIdempotent ==
    Fetched =>
        /\ \A i \in 1..Len(remoteCalls) : remoteCalls[i] \in ReadCalls
        /\ remote = prev.remote
        /\ disk = {} /\ temp_paths = << >>
        /\ (prev.req = req /\ prev.remote = remote) => response = prev.response

\* the bucket listing, repeated against the same buckets, answered with
\* another response
C19_Witness ==
    /\ Fetched /\ req.route = "list_buckets"
    /\ prev.req = req /\ prev.remote = remote
    /\ prev.response.code = 200 /\ response.code = 200
    /\ response.body.Buckets = prev.response.body.Buckets
    /\ response.body.ResponseMetadata # prev.response.body.ResponseMetadata

\* C21: when the bearer secret is absent from the environment the application
\* factory raises, the process never takes a request and nothing is answered;
\* so no response of a running application comes from the gate's "token
\* unset" branch (HTTP 500 from the gate).
C21_NoServiceWithoutSecret ==
    /\ ~Truthy(env["API_BEARER_TOKEN"]) =>
         /\ pc \in {"start", "failed"}
         /\ req = NoRequest
         /\ response = PassThrough
         /\ handlerRan = {}
    /\ ~(gate = "reject" /\ response.code = 500)

\* start-up has failed for want of the secret
C21_Witness ==
    /\ pc = "failed"
    /\ ~Truthy(env["API_BEARER_TOKEN"])
    /\ create_app(env).kind = "raise"

\* the optional identifiers of agent creation: the field of the request body,
\* the field of the adapter request, and the process-wide default
AgentDefaults ==
    { <<"model", "model_uuid", ClassDefault(env, "DEFAULT_MODEL_UUID")>>,
      <<"workspace", "workspace_uuid", ClassDefault(env, "DEFAULT_WORKSPACE_UUID")>>,
      <<"region", "region", ClassDefault(env, "DEFAULT_REGION")>>,
      <<"project_id", "project_id", << >> >> }
\* the request the adapter sent for the agent creation that was served
SentAgentBody ==
    Agents_create_agent_body(env, Field("name").s,
        IF "description" \in DOMAIN req.body.fields THEN Field("description").s ELSE << >>,
        Field("instructions").s, optional_params(req.body))
AgentCreationSent ==
    /\ ServedBy("POST", "create_agent")
    /\ remoteCalls = <<"genai.create_agent">>
\* the caller supplied a value for the field: the body has it, and not as null
Supplied(f) == f \in DOMAIN req.body.fields /\ Field(f) # JNull

MethodCalls ==
    SelectSeq(adapterCalls,
              LAMBDA c : c \notin { "Spaces.__init__", "Agents.__init__", "APIKeys.__init__",
                                    "KnowledgeBases.__init__", "IndexingJobs.__init__",
                                    "Models.__init__", "Databases.__init__" })
\* the adapter methods a handler calls, in the order of its code
Plan(route) ==
    CASE route = "delete_file" -> <<"Spaces.delete_file">>
      [] route = "list_files" -> <<"Spaces.list_files">>
      [] route = "list_buckets" -> <<"Spaces.list_buckets">>
      [] route = "create_bucket" -> <<"Spaces.create_bucket">>
      [] route = "get_bucket" -> <<"Spaces.get_bucket_info">>
      [] route = "delete_bucket" -> <<"Spaces.delete_bucket">>
      [] route = "list_agents" -> <<"Agents.list_agents">>
      [] route = "create_agent" -> <<"Agents.create_agent">>
      [] route = "get_agent" -> <<"Agents.get_agent">>
      [] route = "delete_agent" -> <<"Agents.get_agent", "Agents.delete_agent">>
      [] route = "list_agent_api_keys" -> <<"APIKeys.list_agent_api_keys">>
      [] route = "create_agent_api_key" -> <<"APIKeys.create_agent_api_key">>
      [] route = "attach_agent_knowledge_base" ->
            <<"Agents.get_agent", "KnowledgeBases.get_knowledge_base",
              "Agents.attach_knowledge_base">>
      [] route = "list_knowledge_bases" -> <<"KnowledgeBases.list_knowledge_bases">>
      [] route = "create_knowledge_base" -> <<"KnowledgeBases.create_knowledge_base">>
      [] route = "get_knowledge_base" ->
            <<"KnowledgeBases.get_knowledge_base",
              "KnowledgeBases.list_knowledge_base_data_sources">>
      [] route = "delete_knowledge_base" ->
            <<"KnowledgeBases.get_knowledge_base", "KnowledgeBases.delete_knowledge_base">>
      [] route = "list_data_sources" ->
            <<"KnowledgeBases.list_knowledge_base_data_sources">>
      [] route = "reindex_knowledgebase" -> <<"IndexingJobs.create_indexing_job">>
      [] route = "list_models" -> <<"Models.list_models">>
      [] route = "list_opensearch_databases" -> <<"Databases.list_opensearch_databases">>
      [] OTHER -> << >>
IsPrefix(s, t) == Len(s) <= Len(t) /\ s = SubSeq(t, 1, Len(s))
\* the generative-AI adapters can be constructed: workspace, model and token
\* are set and the default region is not set to ''
GenAIConfigured ==
    /\ env["DEFAULT_WORKSPACE_UUID"] # None /\ env["DEFAULT_WORKSPACE_UUID"] # << >>
    /\ env["DEFAULT_MODEL_UUID"] # None /\ env["DEFAULT_MODEL_UUID"] # << >>
    /\ env["DEFAULT_REGION"] # << >>
    /\ env["DIGITALOCEAN_API_TOKEN"] # None /\ env["DIGITALOCEAN_API_TOKEN"] # << >>
\* the adapter of the route of the request can be constructed
Configured ==
    IF req.route \in StorageRoutes \cup {"upload_file"} THEN SpacesConfigured
    ELSE GenAIConfigured
\* the path, query and body fields the route of the request requires are
\* given as non-blank strings (data_source_uuids: absent, null or a list of
\* non-blank strings)
InputValid ==
    /\ req.route = "delete_file" =>
          req.key # None /\ \E i \in 1..Len(req.key) : req.key[i] # " "
    /\ PathIdGiven
    /\ req.route \in CreateRoutes =>
          \A f \in RequiredFields(req.route) : NonBlankString(Field(f))
    /\ req.route = "attach_agent_knowledge_base" =>
          NonBlankString(Field("knowledge_base_uuid"))
    /\ req.route = "reindex_knowledgebase" =>
          SourcesAbsent \/ Field("data_source_uuids").t = "null" \/ SourcesListed
\* a wrapped handler other than the multi-file upload has served the request
ServedInOnePiece ==
    /\ pc = "done" /\ gate = "pass"
    /\ req.method # "OPTIONS"
    /\ req.route \notin {"upload_file", "health_check"}

GenAIServed ==
    /\ ServedInOnePiece
    /\ req.route \notin StorageRoutes
    /\ InputValid
\* the setting is unset, or set to ''
Unset(k) == env[k] = None \/ env[k] = << >>
\* the answer is for the failed construction: the wrapper's 400 with the
\* constructor's message, from agent creation the failure as data
DefaultsMissingAnswer ==
    LET text == <<"DEFAULT_WORKSPACE_UUID, DEFAULT_MODEL_UUID, and DEFAULT_REGION must be set in the environment variables">>
    IN  IF req.route = "create_agent"
        THEN response.code = 200 /\ response.body.error = text
        ELSE response.code = 400 /\ response.body.message = text

C25_UploadsOneAtATime ==
    \A r \in Threads :
        LET t == threads[r]
        IN  /\ Cardinality(t.inflight) <= 1
            /\ t.inflight \subseteq {Len(t.results) + 1}
            /\ t.started <= Len(t.results) + 1
            /\ t.pc \in {"save", "send", "wait"} => t.started = Len(t.results) + 1

\* the remote upload of a request's second file is in flight, behind the
\* recorded result of its first
C25_Witness ==
    \E r \in Threads :
        /\ threads[r].pc = "wait"
        /\ threads[r].inflight = {2}
        /\ Len(threads[r].results) = 1

\* the temporary paths of a request that its finally block has yet to handle
LivePaths(r) ==
    { threads[r].temp_paths[i] : i \in (threads[r].cleaned + 1)..Len(threads[r].temp_paths) }
\* every temporary path in use is in use once, exists, and was created by the
\* request that uses it
TempPathsApart ==
    /\ \A r \in Threads :
          /\ Cardinality(LivePaths(r)) = Len(threads[r].temp_paths) - threads[r].cleaned
          /\ \A p \in LivePaths(r) : p \in disk /\ creator[p] = r
    /\ \A r, s \in Threads : r # s => LivePaths(r) \cap LivePaths(s) = {}
\* a temporary file is removed only by the cleanup of the request that
\* created it
OnlyOwnRemoved ==
    \A p \in disk \ disk' :
        \E r \in Threads :
            /\ creator[p] = r
            /\ threads'[r].cleaned = threads[r].cleaned + 1
            /\ p = threads[r].temp_paths[threads[r].cleaned + 1]

\* C26: under any interleaving of concurrent multi-file upload requests every
\* file being processed has a temporary path distinct from every other
\* temporary path in use, and a request's cleanup removes only paths the same
\* request created.
C26_TempPathsIsolated == []TempPathsApart /\ [][OnlyOwnRemoved]_vars

\* two requests hold temporary files at the same time, one of them under a
\* name the other request had used and removed
C26_Witness ==
    \E r, s \in Threads :
        /\ r # s
        /\ LivePaths(r) # {}
        /\ \E i \in 1..threads[r].cleaned : threads[r].temp_paths[i] \in LivePaths(s)

\* a wrapped handler has served a request whose input is valid while the
\* configuration its adapter needs is missing
ServedUnconfigured ==
    /\ pc = "done" /\ gate = "pass"
    /\ req.method # "OPTIONS"
    /\ req.route # "health_check"
    /\ InputValid
    /\ req.route = "upload_file" => NonBlankFiles # << >>
    /\ ~Configured

\* C27: a request with valid input that fails for want of server-side
\* configuration (storage key or secret, generative-AI token, a mandatory
\* default) is answered HTTP 400 with the constructor's message by every
\* wrapped route, and no vendor call is made; agent creation alone answers
\* HTTP 200 with 'Agent creation failed'.
C27_MissingConfigurationIs400 ==
    ServedUnconfigured =>
        /\ remoteCalls = << >>
        /\ IF req.route = "create_agent" THEN
               /\ response.code = 200
               /\ response.body.status = <<"success">>
               /\ response.body.message = <<"Agent creation failed">>
           ELSE
               /\ response.code = 400
               /\ response.body.status = <<"error">>
               /\ pending.kind = "raise" /\ pending.exc.cls = "ValueError"
               /\ response.body.message = pending.exc.text

\* a file deletion with a valid key is answered 400 because the storage
\* secret is not set
C27_Witness ==
    /\ ServedBy("DELETE", "delete_file")
    /\ InputValid
    /\ env["SPACES_SECRET"] = None
    /\ adapterCalls = <<"Spaces.__init__">>
    /\ response.code = 400
    /\ Contains(response.body.message, <<"Spaces credentials not found. Set SPACES_KEY and SPACES_SECRET environment variables or pass them as parameters.">>)

\* the i-th vendor call of the handler returned a non-empty response
Found(i) ==
    /\ Len(answers) >= i
    /\ answers[i].kind = "ok"
    /\ DOMAIN answers[i].value # {}
\* the vendor call was issued in the request
Issued(call) == \E i \in 1..Len(remoteCalls) : remoteCalls[i] = call

\* C28: attach knowledge base calls get_agent, then get_knowledge_base, then
\* attach_knowledge_base, and delete knowledge base calls get_knowledge_base,
\* then delete_knowledge_base; the mutating call is issued only after every
\* lookup before it returned a non-empty result, and never in a request in
\* which a lookup failed or returned nothing.
C28_MutationBehindLookups ==
    /\ ServedBy("POST", "attach_agent_knowledge_base") =>
          /\ IsPrefix(remoteCalls, <<"genai.get_agent", "genai.get_knowledge_base",
                                     "genai.attach_knowledge_base">>)
          /\ IsPrefix(MethodCalls, Plan("attach_agent_knowledge_base"))
          /\ Issued("genai.get_knowledge_base") => Found(1)
          /\ Issued("genai.attach_knowledge_base") <=>
                (InputValid /\ Configured /\ Found(1) /\ Found(2))
    /\ ServedBy("DELETE", "delete_knowledge_base") =>
          /\ IsPrefix(remoteCalls, <<"genai.get_knowledge_base", "genai.delete_knowledge_base">>)
          /\ IsPrefix(MethodCalls, Plan("delete_knowledge_base"))
          /\ Issued("genai.delete_knowledge_base") <=>
                (InputValid /\ Configured /\ Found(1))

\* an attach request found the agent but not the knowledge base: it ended
\* behind the second lookup, without the attachment
C28_Witness ==
    /\ ServedBy("POST", "attach_agent_knowledge_base")
    /\ remoteCalls = <<"genai.get_agent", "genai.get_knowledge_base">>
    /\ Found(1) /\ EmptyAnswer(2)
    /\ ~Issued("genai.attach_knowledge_base")
    /\ response.code = 400

\* a wrapped handler has served a request with a missing, blank or ill-typed
\* path, query or body field
ServedInvalid ==
    /\ pc = "done" /\ gate = "pass"
    /\ req.method # "OPTIONS"
    /\ req.route # "health_check"
    /\ IF req.route = "upload_file" THEN NonBlankFiles = << >> ELSE ~InputValid

\* C29: in every wrapped handler the input validation comes before the
\* construction of the adapter and the first adapter call: a request with a
\* missing, blank or ill-typed path, query or body field is answered HTTP 400
\* and has caused no adapter construction, no call to either remote service
\* and no change of remote state.
C29_ValidationBeforeAdapter ==
    ServedInvalid =>
        /\ response.code = 400
        /\ pending.kind = "raise" /\ pending.exc.cls = "ValueError"
        /\ adapterCalls = << >>
        /\ remoteCalls = << >> /\ answers = << >>
        /\ remote = prev.remote
        /\ disk = {}

\* an API key request for a given agent with a blank key name was answered
\* 400 without any adapter
C29_Witness ==
    /\ ServedBy("POST", "create_agent_api_key")
    /\ PathIdGiven
    /\ Field("name") = JStr(<<" ">>)
    /\ response.code = 400
    /\ adapterCalls = << >> /\ remoteCalls = << >>

\* the number of batches of a list of n keys
Batches(n) == (n + batch_size - 1) \div batch_size
\* the results of the c-th batch sent
BatchResults(c) ==
    { bulk.results[j] : j \in { j \in 1..Len(bulk.results) :
                                  (c - 1) * batch_size < j /\ j <= c * batch_size } }
\* the list a call of delete_files is to hand back: one result for every
\* key in the order of the keys, every batch of at most batch_size keys
\* sent, the keys of a batch that failed as a whole all failed
OneResultPerKey ==
    /\ Len(bulk.results) = Len(bulk.keys)
    /\ \A j \in 1..Len(bulk.keys) :
         /\ bulk.results[j].key = bulk.keys[j]
         /\ \/ bulk.results[j].success /\ bulk.results[j].error = None
            \/ /\ ~bulk.results[j].success
               /\ bulk.results[j].error # None /\ bulk.results[j].error # << >>
    /\ Len(bulk.calls) = Batches(Len(bulk.keys))
    /\ \A c \in 1..Len(bulk.calls) :
         /\ Len(bulk.calls[c]) \in 1..batch_size
         /\ bulk.outcomes[c] = "error" => \A res \in BatchResults(c) : ~res.success
    /\ bulk.keys = << >> => bulk.results = << >> /\ bulk.calls = << >>

\* C30: the bulk delete of the storage adapter returns exactly one result
\* per input key, in input order, each either success=true with no error or
\* success=false with an error text; the keys go out in batches of at most
\* batch_size, a vendor failure of a whole batch marks every key of that
\* batch failed and the following batches are still attempted; an empty list
\* returns an empty result without a vendor call.
C30_OneResultPerKey ==
    bulk.pc \in {"returned", "raised"} =>
        /\ bulk.pc = "returned"
        /\ OneResultPerKey

\* a call of three batches lost the results of its first batch, whose keys
\* are deleted, to a connection failure in the second
C30_Witness ==
    /\ bulk.pc = "raised"
    /\ Len(bulk.keys) = 2 * batch_size + 1
    /\ Len(bulk.calls) = 2
    /\ Len(bulk.results) = batch_size
    /\ \A j \in 1..batch_size : bulk.results[j].success

====
